---- MODULE Spec2Model ----
(***************************************************************************)
(* Model of the data/annotation layer of the radiograph labelling tool:    *)
(* DataManager (data_manager.py), the handlers of main_qt.py that call it, *)
(* the co-occurrence variant of analysis_export.py and the undo history of *)
(* the annotation tab (annotations_tab.py).  Python dicts are functions whose DOMAIN is the set of keys         *)
(* present, lists are sequences, and d.get(k, default) is Get(d, k,        *)
(* default).  Numbers are integers; a confidence is kept in tenths (5 is   *)
(* 0.5, 10 is 1.0).                                                        *)
(***************************************************************************)
EXTENDS Integers, Sequences, FiniteSets, TLC

VARIABLES
    fs,               \* the dataset folder on disk: image files and CSV files
    annotations_dir,  \* the "annotations" folder: stem -> persisted unit
    dataset_path,     \* DataManager.dataset_path
    images,           \* DataManager.images
    metadata,         \* DataManager.metadata
    annotations,      \* DataManager.annotations
    out,              \* what the last operation returned or reported
    current_image_path,   \* AnnotationsTab.current_image_path
    current_annotations,  \* AnnotationsTab.current_annotations
    history,              \* AnnotationsTab.history
    history_index,        \* AnnotationsTab.history_index
    bound             \* current_annotations is the very list the store holds
                      \* for current_image_path (the same Python object)

vars == <<fs, annotations_dir, dataset_path, images, metadata, annotations, out,
          current_image_path, current_annotations, history, history_index, bound>>

\* the state of the annotation tab
tab == <<current_image_path, current_annotations, history, history_index, bound>>

\* ------------------------------------------------------------------ bounds

\* add_annotation is offered while the store holds fewer annotations than this.
MaxAnns == 2

\* save_annotations is offered for a new stem while the annotations folder
\* holds fewer files than this (an existing file can always be rewritten).
MaxUnits == 1

\* the longest finding-labels cell parsed on its own, in atoms (a label, a
\* separator or a space)
MaxCell == 3

\* the largest limit passed to get_reference_images_for_pathology
MaxLimit == 2

\* the annotation tab offers a change (create, edit, delete) while its undo
\* history holds fewer snapshots than this
MaxHistory == 2

\* ------------------------------------------------------------------ dicts

\* d.get(k, default)
Get(d, k, default) == IF k \in DOMAIN d THEN d[k] ELSE default

\* the empty dict
EmptyDict == [k \in {} |-> 0]

\* d with d[k] = v set (the key is added when absent)
Put(d, k, v) == [x \in DOMAIN d \cup {k} |-> IF x = k THEN v ELSE d[x]]

None == "None"

\* ------------------------------------------------------------------ paths

Root == "ds"

pA  == "ds/a.png"
pB  == "ds/b.JPG"
pC  == "ds/c.Png"
pIA == "ds/images/a.jpeg"
\* a path outside the dataset folder (no such file)
pX  == "other/x.png"

\* The files a dataset folder may hold, in the order sorted() gives Path
\* objects (part by part: "a.png" < "b.JPG" < "c.Png" < "images").
PathOrder == <<pA, pB, pC, pIA>>

FilePaths == {PathOrder[i] : i \in 1..Len(PathOrder)}

Rank(p) == CHOOSE i \in 1..Len(PathOrder) : PathOrder[i] = p

\* Path(p).suffix
Suffix(p) ==
    CASE p = pA  -> ".png"
      [] p = pB  -> ".JPG"
      [] p = pC  -> ".Png"
      [] p = pIA -> ".jpeg"
      [] p = pX  -> ".png"
      [] OTHER   -> ""

\* Path(p).stem
Stem(p) ==
    CASE p = pA  -> "a"
      [] p = pB  -> "b"
      [] p = pC  -> "c"
      [] p = pIA -> "a"
      [] p = pX  -> "x"
      [] OTHER   -> "?"

\* Path(p).name
FileName(p) ==
    CASE p = pA  -> "a.png"
      [] p = pB  -> "b.JPG"
      [] p = pC  -> "c.Png"
      [] p = pIA -> "a.jpeg"
      [] p = pX  -> "x.png"
      [] OTHER   -> "?"

\* dataset_path / image_name, for the image names the CSV rows use
JoinRoot(name) ==
    CASE name = "a.png"  -> pA
      [] name = "b.JPG"  -> pB
      [] name = "c.Png"  -> pC
      [] name = "a.jpeg" -> "ds/a.jpeg"
      [] OTHER           -> "ds/zz.png"

\* dataset_path / "images" / image_name
JoinImages(name) ==
    CASE name = "a.jpeg" -> pIA
      [] name = "a.png"  -> "ds/images/a.png"
      [] name = "b.JPG"  -> "ds/images/b.JPG"
      [] name = "c.Png"  -> "ds/images/c.Png"
      [] OTHER           -> "ds/images/zz.png"

\* ext.upper()
Upper(ext) ==
    CASE ext = ".png"  -> ".PNG"
      [] ext = ".jpg"  -> ".JPG"
      [] ext = ".jpeg" -> ".JPEG"

image_extensions == <<".png", ".jpg", ".jpeg">>

\* dataset_path.glob("**/*" + ext): pathlib matches the suffix case-sensitively
Glob(tree, ext) == {p \in tree : Suffix(p) = ext}

\* sorted(set(paths))
RECURSIVE SortPaths(_)
SortPaths(S) ==
    IF S = {} THEN <<>>
    ELSE LET m == CHOOSE p \in S : \A q \in S : Rank(p) <= Rank(q)
         IN  <<m>> \o SortPaths(S \ {m})

\* The image discovery of load_dataset: extend by both globs of every
\* extension, then sorted(set(...)).
RECURSIVE Globbed(_, _)
Globbed(tree, i) ==
    IF i > Len(image_extensions) THEN {}
    ELSE Glob(tree, image_extensions[i])
         \cup Glob(tree, Upper(image_extensions[i]))
         \cup Globbed(tree, i + 1)

DiscoverImages(tree) == SortPaths(Globbed(tree, 1))

\* ------------------------------------------------------------------ sequences

Range(s) == {s[i] : i \in 1..Len(s)}

RECURSIVE SumSeq(_)
SumSeq(s) == IF s = <<>> THEN 0 ELSE s[1] + SumSeq(Tail(s))

\* ------------------------------------------------------------------ CSV cells

\* A finding-label cell is a sequence of atoms: a label, the separator "|" or
\* one space " ".  Every token between separators holds at most one label.
LF_AE    == <<"Atelectasis", "|", "Effusion">>
LF_NF    == <<"No Finding">>
LF_Mass  == <<"Mass">>
LF_EFoo  == <<"Effusion", "|", " ", "Foo", " ">>
LF_Empty == <<>>

\* s.strip()
RECURSIVE LStrip(_)
LStrip(s) == IF s # <<>> /\ s[1] = " " THEN LStrip(Tail(s)) ELSE s

RECURSIVE RStrip(_)
RStrip(s) ==
    IF s # <<>> /\ s[Len(s)] = " " THEN RStrip(SubSeq(s, 1, Len(s) - 1)) ELSE s

Strip(s) == LStrip(RStrip(s))

\* s.split("|"): the sequence of tokens, empty ones included
RECURSIVE Split(_, _)
Split(s, cur) ==
    IF s = <<>> THEN <<cur>>
    ELSE IF s[1] = "|" THEN <<cur>> \o Split(Tail(s), <<>>)
    ELSE Split(Tail(s), Append(cur, s[1]))

\* the string a stripped, non-empty token spells (one label atom)
TokenStr(tok) == tok[1]

\* the string a whole cell spells, for the cells that hold one atom or none
CellStr(cell) == IF cell = <<>> THEN "" ELSE cell[1]

\* [lbl.strip() for lbl in tokens if lbl.strip()]
RECURSIVE StripTokens(_)
StripTokens(toks) ==
    IF toks = <<>> THEN <<>>
    ELSE LET t == Strip(toks[1])
         IN  (IF t # <<>> THEN <<TokenStr(t)>> ELSE <<>>) \o StripTokens(Tail(toks))

\* DataManager._parse_pathologies
ParsePathologies(row) ==
    LET a == Get(row, "Finding Labels", <<>>)
        b == Get(row, "Finding Label", <<>>)
        labels == Strip(IF a # <<>> THEN a ELSE b)
    IN  IF labels = <<>> \/ labels = <<"No Finding">> THEN <<>>
        ELSE StripTokens(Split(labels, <<>>))

\* the atoms of a finding-labels cell
CellAtoms == {"No Finding", "Mass", "|", " "}

\* a token of the cell is one label at most
OneLabelTokens(cell) ==
    LET toks == Split(cell, <<>>)
    IN  \A i \in 1..Len(toks) : Len(Strip(toks[i])) <= 1

\* the finding-labels cells of MaxCell atoms or fewer
Cells == {cell \in UNION {[1..n -> CellAtoms] : n \in 0..MaxCell} : OneLabelTokens(cell)}

\* int(s) and float(s) succeed on these cells
IsNumber(s) == s \in {"000", "1", "2", "3", "4", "5", "6", "7", "8", "10", "20", "30"}

\* int(s) / float(s)
NumberOf(s) ==
    CASE s = "000" -> 0
      [] s = "1"   -> 1
      [] s = "2"   -> 2
      [] s = "3"   -> 3
      [] s = "4"   -> 4
      [] s = "5"   -> 5
      [] s = "6"   -> 6
      [] s = "7"   -> 7
      [] s = "8"   -> 8
      [] s = "10"  -> 10
      [] s = "20"  -> 20
      [] s = "30"  -> 30

\* (datetime(2000, 1, 1) + timedelta(days=n)).strftime("%Y-%m-%d")
FollowUpDate(n) ==
    CASE n = 0 -> "2000-01-01"
      [] n = 1 -> "2000-01-02"
      [] n = 2 -> "2000-01-03"
      [] OTHER -> "2000-01-04"

\* datetime.now(): the clock readings an operation may see
Times == {"2025-01-01"}

\* ------------------------------------------------------------------ datasets

DataRow(name, labels, pid, age, sex, view, follow) ==
    ("Image Index" :> name) @@ ("Finding Labels" :> labels)
    @@ ("Patient ID" :> pid) @@ ("Patient Age" :> age)
    @@ ("Patient Gender" :> sex) @@ ("View Position" :> view)
    @@ ("Follow-up #" :> follow)

R1 == DataRow("a.png", LF_AE, "P001", "45", "M", "PA", "1")
R2 == DataRow("b.JPG", LF_NF, "P002", "60", "F", "AP", "2")
R3 == DataRow("a.jpeg", LF_Mass, "P003", "045Y", "f", " pa", "x")
R4 == DataRow("zz.png", LF_Mass, "P004", "30", "M", "PA", "1")
R5 == DataRow("a.png", LF_EFoo, "P001", "n/a", "M", "AP", "2")
R6 == DataRow("c.Png", LF_Mass, "P006", "70", "F", "PA", "1")

BBoxRow(name, quad, label) ==
    ("Image Index" :> name) @@ ("Bbox [x,y,w,h]" :> quad)
    @@ ("Finding Label" :> label)

\* the quad cell is kept split at its commas
B1 == BBoxRow("a.png", <<"1", "2", "3", "4">>, LF_Mass)
B2 == BBoxRow("a.png", <<"5", "6", "7">>, <<"Nodule">>)
B3 == BBoxRow("b.JPG", <<"x", "2", "3", "4">>, LF_Mass)
B4 == BBoxRow("c.Png", <<"1", "2", "3", "4">>, <<"Nodule">>)
B5 == BBoxRow("a.png", <<"5", "6", "7", "8">>, <<"Nodule">>)
B6 == BBoxRow("", <<"1", "2", "3", "4">>, LF_Mass)

NoFile == [exists |-> FALSE, readable |-> FALSE, rows |-> <<>>]
CsvFile(rows) == [exists |-> TRUE, readable |-> TRUE, rows |-> rows]
Unreadable == [exists |-> TRUE, readable |-> FALSE, rows |-> <<>>]

Dataset(tree, data_entry, bbox) ==
    [tree |-> tree, data_entry |-> data_entry, bbox |-> bbox]

\* The dataset folders a session may open.
Datasets ==
    { Dataset({pA, pB}, NoFile, NoFile),
      Dataset({pA, pB}, CsvFile(<<R1, R2>>), NoFile),
      Dataset({pA, pB}, CsvFile(<<R1, R4>>), CsvFile(<<B1, B2, B3, B5, B6>>)),
      Dataset({pA, pC}, CsvFile(<<R1, R6>>), CsvFile(<<B4, B1>>)),
      Dataset({pA, pIA}, CsvFile(<<R1, R5, R3>>), NoFile),
      Dataset({pA, pB}, Unreadable, NoFile),
      Dataset({pA, pB}, NoFile, CsvFile(<<B1, B5>>)),
      Dataset({pA}, NoFile, NoFile) }

\* ------------------------------------------------------------------ annotations

\* QColor(r, g, b, a), and the dict {"r", "g", "b", "a"} it is saved as
QColor(r, g, b, a) == [qcolor |-> <<r, g, b, a>>]
ColorDict(r, g, b, a) == [r |-> r, g |-> g, b |-> b, a |-> a]

\* hasattr(color, "red")
IsQColor(c) == "qcolor" \in DOMAIN c

AutoBBoxConfidence == 5

\* The annotations a caller adds: the dict of test_add_annotation (no author,
\* date or confidence) and a dict as on_annotation_created completes it.
U1 == [type |-> "box", x |-> 10, y |-> 20, width |-> 30, height |-> 40,
       pathology |-> "Atelectasis"]
U2 == [type |-> "box", x |-> 0, y |-> 0, width |-> 10, height |-> 10,
       pathology |-> "Mass", author |-> "alice", date |-> "2025-01-01",
       confidence |-> 10, color |-> QColor(255, 0, 0, 255)]

UserAnnotations == {U1, U2}

\* the paths callers pass: the files of the folder and one outside it
CallPaths == FilePaths \cup {pX}

\* ann.copy() with a QColor turned into its dict (save_annotations 94-104,
\* _serialize_annotations_for_export)
SerializeAnnotation(ann) ==
    IF "color" \in DOMAIN ann /\ IsQColor(ann.color)
    THEN [ann EXCEPT !.color = ColorDict(ann.color.qcolor[1], ann.color.qcolor[2],
                                         ann.color.qcolor[3], ann.color.qcolor[4])]
    ELSE ann

SerializeAnnotations(anns) == [i \in 1..Len(anns) |-> SerializeAnnotation(anns[i])]

\* a loaded annotation kept as the file holds it
DeserializeAnnotationKeepDict(ann) == ann

\* the colour dict of a loaded annotation turned back into a QColor
\* (_load_existing_annotations 72-81)
DeserializeAnnotation(ann) ==
    IF "color" \in DOMAIN ann /\ ~IsQColor(ann.color)
    THEN [ann EXCEPT !.color = QColor(Get(ann.color, "r", 255), Get(ann.color, "g", 0),
                                      Get(ann.color, "b", 0), Get(ann.color, "a", 255))]
    ELSE ann

\* ------------------------------------------------------------------ load_dataset

\* image_path.exists()
Exists(tree, p) == p \in tree

\* the path a CSV row's image name resolves to, or None
ResolveRow(tree, name) ==
    IF Exists(tree, JoinRoot(name)) THEN JoinRoot(name)
    ELSE IF Exists(tree, JoinImages(name)) THEN JoinImages(name)
    ELSE None

\* the pseudo patient id f"P{hash(str(img_path)) % 10000:04d}"
PseudoPatientId(p) ==
    CASE p = pA  -> "P4711"
      [] p = pB  -> "P0042"
      [] p = pC  -> "P9001"
      [] p = pIA -> "P0815"
      [] OTHER   -> "P0000"

\* DataManager._generate_default_metadata
GenerateDefaultMetadata(md, imgs, now) ==
    [p \in DOMAIN md \cup Range(imgs) |->
        IF p \in Range(imgs)
        THEN [patient_id |-> PseudoPatientId(p), age |-> "Unknown", sex |-> "Unknown",
              view |-> "PA", date |-> now, pathologies |-> <<>>,
              filename |-> FileName(p)]
        ELSE md[p]]

\* one CSV row of _load_metadata_from_csv
MetadataOfRow(row, now) ==
    LET follow_up == Get(row, "Follow-up #", "000")
    IN  [patient_id |-> Get(row, "Patient ID", ""),
         age |-> Get(row, "Patient Age", ""),
         sex |-> Get(row, "Patient Gender", ""),
         view |-> Get(row, "View Position", ""),
         date |-> IF IsNumber(follow_up) THEN FollowUpDate(NumberOf(follow_up)) ELSE now,
         pathologies |-> ParsePathologies(row),
         filename |-> Get(row, "Image Index", Get(row, "filename", ""))]

RECURSIVE LoadMetadataRows(_, _, _, _)
LoadMetadataRows(rows, md, tree, now) ==
    IF rows = <<>> THEN md
    ELSE LET row == rows[1]
             image_name == Get(row, "Image Index", Get(row, "filename", ""))
             image_path == ResolveRow(tree, image_name)
         IN  IF image_name = "" \/ image_path = None
             THEN LoadMetadataRows(Tail(rows), md, tree, now)
             ELSE LoadMetadataRows(Tail(rows),
                                   Put(md, image_path, MetadataOfRow(row, now)),
                                   tree, now)

\* DataManager._load_metadata_from_csv: defaults only when the file cannot be read
LoadMetadataFromCsv(csv, md, imgs, tree, now) ==
    IF csv.readable THEN LoadMetadataRows(csv.rows, md, tree, now)
    ELSE GenerateDefaultMetadata(md, imgs, now)

\* The metadata step of load_dataset (47-55): the Data_Entry file when there is
\* one, else the first CSV found (here the bounding-box file), else defaults.
LoadMetadata(d, imgs, now) ==
    IF d.data_entry.exists
    THEN LoadMetadataFromCsv(d.data_entry, EmptyDict, imgs, d.tree, now)
    ELSE IF d.bbox.exists
    THEN LoadMetadataFromCsv(d.bbox, EmptyDict, imgs, d.tree, now)
    ELSE GenerateDefaultMetadata(EmptyDict, imgs, now)

\* a quad cell whose first four parts all parse as floats
QuadOk(quad) == Len(quad) >= 4 /\ \A i \in 1..4 : IsNumber(quad[i])

SeedAnnotation(row, now) ==
    LET quad == row["Bbox [x,y,w,h]"]
    IN  [type |-> "box", x |-> NumberOf(quad[1]), y |-> NumberOf(quad[2]),
         width |-> NumberOf(quad[3]), height |-> NumberOf(quad[4]),
         pathology |-> CellStr(Get(row, "Finding Label", <<>>)),
         author |-> "auto_bbox", date |-> now, confidence |-> AutoBBoxConfidence]

\* ------------------------------------------------------------------ the annotation map

\* DataManager.annotations is a dict whose iteration order is the order in
\* which its keys were first set: keys holds that order, val the lists.
EmptyStore == [keys |-> <<>>, val |-> EmptyDict]

Has(d, k) == k \in DOMAIN d.val

\* d[k] = v
Set(d, k, v) ==
    [keys |-> IF Has(d, k) THEN d.keys ELSE Append(d.keys, k), val |-> Put(d.val, k, v)]

\* d.get(k, [])
ListOf(d, k) == IF Has(d, k) THEN d.val[k] ELSE <<>>

\* What the tab holds after the store's lists were changed in place
\* (append, item assignment, del): the tab's list is the store's when bound.
TabSees(store) ==
    /\ current_annotations' =
         IF bound /\ Has(store, current_image_path) THEN store.val[current_image_path]
         ELSE current_annotations
    /\ UNCHANGED <<current_image_path, history, history_index, bound>>

\* What the tab holds after self.annotations was replaced by a new dict
\* (load_dataset 35): its list is no longer one of the store's.
TabLosesStore ==
    /\ bound' = FALSE
    /\ UNCHANGED <<current_image_path, current_annotations, history, history_index>>

\* list(d.values())
Values(d) == [i \in 1..Len(d.keys) |-> d.val[d.keys[i]]]

\* DataManager._load_bbox_from_csv, row by row
RECURSIVE LoadBBoxRows(_, _, _, _)
LoadBBoxRows(rows, anns, tree, now) ==
    IF rows = <<>> THEN anns
    ELSE LET row == rows[1]
             image_name == Get(row, "Image Index", "")
             key == ResolveRow(tree, image_name)
             withKey == IF Has(anns, key) THEN anns ELSE Set(anns, key, <<>>)
         IN  IF image_name = "" \/ key = None
             THEN LoadBBoxRows(Tail(rows), anns, tree, now)
             ELSE IF ~QuadOk(Get(row, "Bbox [x,y,w,h]", <<>>))
             THEN LoadBBoxRows(Tail(rows), withKey, tree, now)
             ELSE LoadBBoxRows(Tail(rows),
                               Set(withKey, key,
                                   Append(withKey.val[key], SeedAnnotation(row, now))),
                               tree, now)

LoadBBoxFromCsv(csv, anns, tree, now) ==
    IF csv.exists /\ csv.readable THEN LoadBBoxRows(csv.rows, anns, tree, now)
    ELSE anns

\* the sequence _load_existing_annotations gives one image
ExistingAnnotations(dir, p) ==
    IF Stem(p) \in DOMAIN dir
    THEN LET saved == dir[Stem(p)].annotations
         IN  [i \in 1..Len(saved) |-> DeserializeAnnotation(saved[i])]
    ELSE <<>>

\* DataManager._load_existing_annotations: every discovered image is assigned
RECURSIVE LoadExistingAnnotations(_, _, _)
LoadExistingAnnotations(imgs, anns, dir) ==
    IF imgs = <<>> THEN anns
    ELSE LoadExistingAnnotations(Tail(imgs),
                                 Set(anns, imgs[1], ExistingAnnotations(dir, imgs[1])),
                                 dir)

\* load_dataset with its last two steps exchanged: saved files first, seeds after
LoadAnnotationsSeedsLast(d, imgs, dir, now) ==
    LoadBBoxFromCsv(d.bbox, LoadExistingAnnotations(imgs, EmptyStore, dir), d.tree, now)

\* the annotation map load_dataset leaves (57-61): seeds first, then the
\* saved files
LoadAnnotations(d, imgs, dir, now) ==
    LoadExistingAnnotations(imgs, LoadBBoxFromCsv(d.bbox, EmptyStore, d.tree, now), dir)

\* ------------------------------------------------------------------ actions

\* the operations that return nothing and report nothing leave this
NoOut == [op |-> "none"]

\* DataManager() on a chosen dataset folder, with an empty annotations folder,
\* and AnnotationsTab() on it (annotations_tab.py 391-399)
Init ==
    /\ fs \in Datasets
    /\ annotations_dir = EmptyDict
    /\ dataset_path = None
    /\ images = <<>>
    /\ metadata = EmptyDict
    /\ annotations = EmptyStore
    /\ out = NoOut
    /\ current_image_path = None
    /\ current_annotations = <<>>
    /\ history = <<>>
    /\ history_index = -1
    /\ bound = FALSE

\* DataManager.load_dataset
LoadDataset(now) ==
    /\ dataset_path' = Root
    /\ images' = DiscoverImages(fs.tree)
    /\ metadata' = LoadMetadata(fs, images', now)
    /\ annotations' = LoadAnnotations(fs, images', annotations_dir, now)
    /\ out' = [op |-> "load_dataset"]
    /\ TabLosesStore
    /\ UNCHANGED <<fs, annotations_dir>>

\* sum(len(annos) for annos in self.annotations.values())
TotalAnnotations(d) == SumSeq([i \in 1..Len(d.keys) |-> Len(d.val[d.keys[i]])])

\* what a mutator leaves behind: its name, whether its guarded branch ran,
\* and the exception that escaped it (None when it returned)
Called(name, applied, raised) == [op |-> name, applied |-> applied, raised |-> raised]

\* add_annotation that skips an annotation the list already holds
AddAnnotationOnce(image_path, annotation) ==
    /\ annotations' =
         IF annotation \in Range(ListOf(annotations, image_path))
         THEN Set(annotations, image_path, ListOf(annotations, image_path))
         ELSE Set(annotations, image_path,
                  Append(ListOf(annotations, image_path), annotation))
    /\ out' = Called("add_annotation", TRUE, None)
    /\ TabSees(annotations')
    /\ UNCHANGED <<fs, annotations_dir, dataset_path, images, metadata>>

\* DataManager.add_annotation
AddAnnotation(image_path, annotation) ==
    /\ annotations' = Set(annotations, image_path,
                          Append(ListOf(annotations, image_path), annotation))
    /\ out' = Called("add_annotation", TRUE, None)
    /\ TabSees(annotations')
    /\ UNCHANGED <<fs, annotations_dir, dataset_path, images, metadata>>

\* the bounds check without its lower bound
InRangeNoLowerBound(d, image_path, annotation_id) ==
    /\ Has(d, image_path)
    /\ annotation_id < Len(d.val[image_path])

\* the bounds check of update_annotation and delete_annotation, on a 0-based index
InRange(d, image_path, annotation_id) ==
    /\ Has(d, image_path)
    /\ 0 <= annotation_id
    /\ annotation_id < Len(d.val[image_path])

\* the 1-based position lst[i] addresses: a negative i counts from the end
PyPos(lst, i) == IF i < 0 THEN Len(lst) + i + 1 ELSE i + 1

\* lst[i] and del lst[i] raise IndexError outside the list
PyIndexOk(lst, i) == PyPos(lst, i) \in 1..Len(lst)

\* lst[i] = v
SetAt(lst, i, v) == [lst EXCEPT ![PyPos(lst, i)] = v]

\* del lst[i]
DelAt(lst, i) == SubSeq(lst, 1, PyPos(lst, i) - 1) \o SubSeq(lst, PyPos(lst, i) + 1, Len(lst))

\* DataManager.update_annotation
UpdateAnnotation(image_path, annotation_id, annotation) ==
    LET hit == InRange(annotations, image_path, annotation_id)
        lst == ListOf(annotations, image_path)
        ok  == PyIndexOk(lst, annotation_id)
    IN  /\ annotations' =
             IF hit /\ ok
             THEN Set(annotations, image_path, SetAt(lst, annotation_id, annotation))
             ELSE annotations
        /\ out' = Called("update_annotation", hit,
                         IF hit /\ ~ok THEN "IndexError" ELSE None)
        /\ TabSees(annotations')
        /\ UNCHANGED <<fs, annotations_dir, dataset_path, images, metadata>>

\* DataManager.delete_annotation
DeleteAnnotation(image_path, annotation_id) ==
    LET hit == InRange(annotations, image_path, annotation_id)
        lst == ListOf(annotations, image_path)
        ok  == PyIndexOk(lst, annotation_id)
    IN  /\ annotations' =
             IF hit /\ ok
             THEN Set(annotations, image_path, DelAt(lst, annotation_id))
             ELSE annotations
        /\ out' = Called("delete_annotation", hit,
                         IF hit /\ ~ok THEN "IndexError" ELSE None)
        /\ TabSees(annotations')
        /\ UNCHANGED <<fs, annotations_dir, dataset_path, images, metadata>>

\* DataManager.get_image_annotations
GetImageAnnotations(image_path) == ListOf(annotations, image_path)

\* the query written with self.annotations.setdefault(image_path, [])
GetImageAnnotationsSetDefault(image_path) ==
    /\ out' = [op |-> "get_image_annotations", image_path |-> image_path,
               result |-> GetImageAnnotations(image_path)]
    /\ annotations' = Set(annotations, image_path, GetImageAnnotations(image_path))
    /\ TabSees(annotations')
    /\ UNCHANGED <<fs, annotations_dir, dataset_path, images, metadata>>

GetImageAnnotationsCall(image_path) ==
    /\ out' = [op |-> "get_image_annotations", image_path |-> image_path,
               result |-> GetImageAnnotations(image_path)]
    /\ UNCHANGED <<fs, annotations_dir, dataset_path, images, metadata, annotations, tab>>

\* a save that adds the annotations to those the file already holds
PersistedUnitMerging(image_path, now) ==
    [image_path |-> image_path,
     metadata |-> Get(metadata, image_path, EmptyDict),
     annotations |->
         (IF Stem(image_path) \in DOMAIN annotations_dir
          THEN annotations_dir[Stem(image_path)].annotations ELSE <<>>)
         \o SerializeAnnotations(annotations.val[image_path]),
     last_modified |-> now]

\* the persisted unit save_annotations writes (92-111)
PersistedUnit(image_path, now) ==
    [image_path |-> image_path,
     metadata |-> Get(metadata, image_path, EmptyDict),
     annotations |-> SerializeAnnotations(annotations.val[image_path]),
     last_modified |-> now]

\* DataManager.save_annotations.  The reference picture it then renders is a
\* derived PNG that no operation reads back; it is not part of the state.
SaveAnnotations(image_path, now) ==
    /\ annotations_dir' =
         IF Has(annotations, image_path)
         THEN Put(annotations_dir, Stem(image_path), PersistedUnit(image_path, now))
         ELSE annotations_dir
    /\ out' = [op |-> "save_annotations", image_path |-> image_path,
               applied |-> Has(annotations, image_path), raised |-> None]
    /\ UNCHANGED <<fs, dataset_path, images, metadata, annotations, tab>>

\* ------------------------------------------------------------------ get_statistics

\* all annotations of the store, in iteration order
RECURSIVE Flatten(_)
Flatten(lists) == IF lists = <<>> THEN <<>> ELSE lists[1] \o Flatten(Tail(lists))

\* a counting loop that skips the annotations lacking the key
RECURSIVE TallyPresentOnly(_, _, _)
TallyPresentOnly(anns, key, acc) ==
    IF anns = <<>> THEN acc
    ELSE TallyPresentOnly(Tail(anns), key,
                          IF key \in DOMAIN anns[1]
                          THEN Put(acc, anns[1][key], Get(acc, anns[1][key], 0) + 1)
                          ELSE acc)

\* the counting loop of get_statistics (313-322) for one key of the dicts
RECURSIVE Tally(_, _, _)
Tally(anns, key, acc) ==
    IF anns = <<>> THEN acc
    ELSE LET name == Get(anns[1], key, "Unknown")
         IN  Tally(Tail(anns), key, Put(acc, name, Get(acc, name, 0) + 1))

\* sum(1 for annos in values if annos)
RECURSIVE CountNonEmpty(_)
CountNonEmpty(lists) ==
    IF lists = <<>> THEN 0
    ELSE (IF lists[1] # <<>> THEN 1 ELSE 0) + CountNonEmpty(Tail(lists))

\* DataManager.get_statistics
GetStatistics ==
    [total_images |-> Len(images),
     annotated_images |-> CountNonEmpty(Values(annotations)),
     total_annotations |-> TotalAnnotations(annotations),
     annotations_by_pathology |-> Tally(Flatten(Values(annotations)), "pathology", EmptyDict),
     annotations_by_author |-> Tally(Flatten(Values(annotations)), "author", EmptyDict),
     average_time |-> 0]

Statistics ==
    /\ out' = [op |-> "get_statistics", stats |-> GetStatistics]
    /\ UNCHANGED <<fs, annotations_dir, dataset_path, images, metadata, annotations, tab>>

\* ------------------------------------------------------------------ get_cooccurrence_data

PATHOLOGY_ORDER ==
    <<"Atelectasis", "Cardiomegaly", "Effusion", "Infiltration", "Mass", "Nodule",
      "Pneumonia", "Pneumothorax", "Consolidation", "Edema", "Emphysema", "Fibrosis",
      "Pleural_Thickening", "Hernia">>

\* p in label_to_idx
InVocabulary(p) == p \in Range(PATHOLOGY_ORDER)

\* the pathology set the loop builds for one image (395-400)
ImagePathologies(path_str, from_csv_only) ==
    LET pathologies == Range(Get(Get(metadata, path_str, EmptyDict), "pathologies", <<>>))
        anns == ListOf(annotations, path_str)
    IN  IF pathologies = {} /\ ~from_csv_only
        THEN {anns[i].pathology : i \in {j \in 1..Len(anns) :
                  /\ "pathology" \in DOMAIN anns[j]
                  /\ anns[j].pathology # ""
                  /\ InVocabulary(anns[j].pathology)}}
        ELSE pathologies

\* a double loop that counts each unordered pair once
AddPairsOnce(matrix, pathologies) ==
    [i \in 1..Len(PATHOLOGY_ORDER) |->
        [j \in 1..Len(PATHOLOGY_ORDER) |->
            matrix[i][j] + (IF /\ i <= j
                               /\ PATHOLOGY_ORDER[i] \in pathologies
                               /\ PATHOLOGY_ORDER[j] \in pathologies
                            THEN 1 ELSE 0)]]

\* the double loop over one image's set (401-409)
AddPairs(matrix, pathologies) ==
    [i \in 1..Len(PATHOLOGY_ORDER) |->
        [j \in 1..Len(PATHOLOGY_ORDER) |->
            matrix[i][j] + (IF /\ PATHOLOGY_ORDER[i] \in pathologies
                               /\ PATHOLOGY_ORDER[j] \in pathologies
                            THEN 1 ELSE 0)]]

RECURSIVE Cooccurrence(_, _, _)
Cooccurrence(imgs, matrix, from_csv_only) ==
    IF imgs = <<>> THEN matrix
    ELSE Cooccurrence(Tail(imgs),
                      AddPairs(matrix, ImagePathologies(imgs[1], from_csv_only)),
                      from_csv_only)

ZeroMatrix ==
    [i \in 1..Len(PATHOLOGY_ORDER) |-> [j \in 1..Len(PATHOLOGY_ORDER) |-> 0]]

\* DataManager.get_cooccurrence_data
GetCooccurrenceData(from_csv_only) ==
    [labels |-> PATHOLOGY_ORDER,
     matrix |-> Cooccurrence(images, ZeroMatrix, from_csv_only)]

CooccurrenceData(from_csv_only) ==
    /\ out' = [op |-> "get_cooccurrence_data", from_csv_only |-> from_csv_only,
               result |-> GetCooccurrenceData(from_csv_only)]
    /\ UNCHANGED <<fs, annotations_dir, dataset_path, images, metadata, annotations, tab>>

\* ------------------------------------------------------------------ analysis_export

\* "finding" in c.lower() and "label" in c.lower(), on the column names of
\* the files here
IsFindingLabelColumn(c) == c \in {"Finding Labels", "Finding Label"}

\* row.get("Image Index", row.get("Image", ...)); the files here that lack
\* both columns have no other image column
ImageOfRow(row) == Get(row, "Image Index", Get(row, "Image", ""))

\* the vocabulary labels one row adds to its image's set (58-73)
RowLabels(row, has_finding_labels) ==
    IF has_finding_labels
    THEN LET cols == {k \in DOMAIN row : IsFindingLabelColumn(k)}
             first == IF cols = {} THEN <<>> ELSE row[CHOOSE k \in cols : TRUE]
             raw == IF first # <<>> THEN first ELSE Get(row, "Finding Labels", <<>>)
         IN  {p \in Range(StripTokens(Split(raw, <<>>))) : InVocabulary(p)}
    ELSE LET patho == Strip(Get(row, "Pathology", Get(row, "pathology", <<>>)))
         IN  IF Len(patho) = 1 /\ InVocabulary(patho[1]) THEN {patho[1]} ELSE {}

\* per_image after the loop over the rows (53-73): the labels of all the
\* rows of an image, united under the image's name
RECURSIVE PerImage(_, _, _)
PerImage(rows, has_finding_labels, per_image) ==
    IF rows = <<>> THEN per_image
    ELSE LET img == ImageOfRow(rows[1])
             found == RowLabels(rows[1], has_finding_labels)
         IN  IF img = "" \/ found = {}
             THEN PerImage(Tail(rows), has_finding_labels, per_image)
             ELSE PerImage(Tail(rows), has_finding_labels,
                           Put(per_image, img, Get(per_image, img, {}) \cup found))

\* the loop over per_image.values() (74-81)
RECURSIVE SumPairs(_, _, _)
SumPairs(per_image, todo, matrix) ==
    IF todo = {} THEN matrix
    ELSE LET img == CHOOSE i \in todo : TRUE
         IN  SumPairs(per_image, todo \ {img}, AddPairs(matrix, per_image[img]))

\* analysis_export._cooccurrence_from_csv on a readable file
CooccurrenceFromCsv(csv) ==
    LET fieldnames == IF csv.rows = <<>> THEN {} ELSE DOMAIN csv.rows[1]
        has_finding_labels == \E c \in fieldnames : IsFindingLabelColumn(c)
        per_image == PerImage(csv.rows, has_finding_labels, EmptyDict)
    IN  [labels |-> PATHOLOGY_ORDER,
         matrix |-> SumPairs(per_image, DOMAIN per_image, ZeroMatrix)]

\* the readable CSV files of the session's folder
FolderCsvFiles == {f \in {fs.data_entry, fs.bbox} : f.exists /\ f.readable}

CooccurrenceFromCsvCall(csv) ==
    /\ out' = [op |-> "_cooccurrence_from_csv", csv |-> csv,
               result |-> CooccurrenceFromCsv(csv)]
    /\ UNCHANGED <<fs, annotations_dir, dataset_path, images, metadata, annotations, tab>>

\* ------------------------------------------------------------------ filter_images

\* s.upper(), on the strings metadata and criteria hold
UpperStr(s) ==
    CASE s = "f"       -> "F"
      [] s = "m"       -> "M"
      [] s = "pa"      -> "PA"
      [] s = " pa"     -> " PA"
      [] s = "Unknown" -> "UNKNOWN"
      [] s = "Tous"    -> "TOUS"
      [] OTHER         -> s

\* s.strip()
StripStr(s) ==
    CASE s = " pa" -> "pa"
      [] s = " PA" -> "PA"
      [] OTHER     -> s

\* a < b on the date strings, which Python compares character by character
DateRank(s) ==
    CASE s = ""           -> 0
      [] s = "2000-01-01" -> 1
      [] s = "2000-01-02" -> 2
      [] s = "2000-01-03" -> 3
      [] s = "2000-01-04" -> 4
      [] s = "2025-01-01" -> 5
      [] OTHER            -> 6

StrLess(a, b) == DateRank(a) < DateRank(b)

\* int(str(age).replace("Y", "")) raises no ValueError
AgeParses(age) == age \in {"0", "30", "45", "60", "70", "045Y"}

AgeOf(age) ==
    CASE age = "0"    -> 0
      [] age = "30"   -> 30
      [] age = "45"   -> 45
      [] age = "60"   -> 60
      [] age = "70"   -> 70
      [] age = "045Y" -> 45

\* filters.get(key) is truthy, for a key that holds a string
TruthyStr(filters, key) == key \in DOMAIN filters /\ filters[key] # ""

\* filters.get(key) is truthy, for a key that holds a number
TruthyNum(filters, key) == key \in DOMAIN filters /\ filters[key] # 0

\* the body of the loop of filter_images for one image: the final value of match
FilterMatch(img_path, filters) ==
    LET md == Get(metadata, img_path, EmptyDict)
        age == Get(md, "age", "0")
    IN  /\ (TruthyStr(filters, "pathology") /\ filters["pathology"] # "Toutes")
             => filters["pathology"] \in Range(Get(md, "pathologies", <<>>))
        /\ (TruthyStr(filters, "sex") /\ filters["sex"] # "Tous")
             => UpperStr(Get(md, "sex", "")) = UpperStr(filters["sex"])
        /\ (TruthyStr(filters, "view") /\ filters["view"] # "Toutes")
             => UpperStr(StripStr(Get(md, "view", ""))) = UpperStr(StripStr(filters["view"]))
        /\ TruthyStr(filters, "date_min")
             => ~StrLess(Get(md, "date", ""), filters["date_min"])
        /\ TruthyStr(filters, "date_max")
             => ~StrLess(filters["date_max"], Get(md, "date", ""))
        /\ (TruthyNum(filters, "age_min") /\ AgeParses(age))
             => ~(AgeOf(age) < filters["age_min"])
        /\ (TruthyNum(filters, "age_max") /\ AgeParses(age))
             => ~(AgeOf(age) > filters["age_max"])
        /\ "has_annotations" \in DOMAIN filters
             => ((Len(ListOf(annotations, img_path)) > 0) = filters["has_annotations"])

\* a loop that puts each match in front of the earlier ones
RECURSIVE FilterLoopPrepend(_, _, _)
FilterLoopPrepend(imgs, filters, filtered) ==
    IF imgs = <<>> THEN filtered
    ELSE FilterLoopPrepend(Tail(imgs), filters,
                           IF FilterMatch(imgs[1], filters) THEN <<imgs[1]>> \o filtered
                           ELSE filtered)

\* a loop that keeps an image as soon as one of the constraints accepts it
RECURSIVE FilterLoopAnyKey(_, _, _)
FilterLoopAnyKey(imgs, filters, filtered) ==
    IF imgs = <<>> THEN filtered
    ELSE FilterLoopAnyKey(Tail(imgs), filters,
             IF \/ DOMAIN filters = {}
                \/ \E key \in DOMAIN filters :
                      FilterMatch(imgs[1], [k \in {key} |-> filters[k]])
             THEN Append(filtered, imgs[1])
             ELSE filtered)

\* DataManager.filter_images: the loop over self.images, appending the matches
RECURSIVE FilterLoop(_, _, _)
FilterLoop(imgs, filters, filtered) ==
    IF imgs = <<>> THEN filtered
    ELSE FilterLoop(Tail(imgs), filters,
                    IF FilterMatch(imgs[1], filters) THEN Append(filtered, imgs[1])
                    ELSE filtered)

FilterImages(filters) == FilterLoop(images, filters, <<>>)

\* The criteria a caller passes: none, the defaults of the filter panel, and
\* one or two constraints.
FilterInputs ==
    { EmptyDict,
      [pathology |-> "Toutes", sex |-> "Tous", view |-> "Toutes"],
      [pathology |-> "Atelectasis"],
      [sex |-> "f", view |-> "pa"],
      [date_min |-> "2000-01-03"],
      [date_max |-> "2000-01-02", age_min |-> 40],
      [age_max |-> 50],
      [has_annotations |-> TRUE],
      [pathology |-> "Mass", has_annotations |-> FALSE] }

FilterImagesCall(filters) ==
    /\ out' = [op |-> "filter_images", filters |-> filters, result |-> FilterImages(filters)]
    /\ UNCHANGED <<fs, annotations_dir, dataset_path, images, metadata, annotations, tab>>

\* ------------------------------------------------------------------ reference images

\* a second spelling of the path of a.png
pAlias == "ds/./a.png"

\* _norm: str(Path(p).resolve()), the absolute path without "." segments
Norm(p) ==
    CASE p = pA     -> "/abs/ds/a.png"
      [] p = pAlias -> "/abs/ds/a.png"
      [] p = pB     -> "/abs/ds/b.JPG"
      [] p = pC     -> "/abs/ds/c.Png"
      [] p = pIA    -> "/abs/ds/images/a.jpeg"
      [] p = pX     -> "/abs/other/x.png"
      [] OTHER      -> None

\* a.get("pathology") == pathology and (a.get("type") == "box" or
\* ("x" in a and "width" in a))
IsBoxOf(a, pathology) ==
    /\ "pathology" \in DOMAIN a /\ a.pathology = pathology
    /\ \/ "type" \in DOMAIN a /\ a.type = "box"
       \/ "x" \in DOMAIN a /\ "width" \in DOMAIN a

\* [a for a in ann_list if ...]
ForPathology(ann_list, pathology) ==
    LET Keep(a) == IsBoxOf(a, pathology) IN SelectSeq(ann_list, Keep)

\* the first loop (449-463), from the k-th key of the store on; done tells
\* that the loop returned the result
RECURSIVE ScanStore(_, _, _, _, _, _)
ScanStore(k, result, seen_paths, pathology, limit, exclude_path) ==
    IF k > Len(annotations.keys) THEN [result |-> result, seen |-> seen_paths, done |-> FALSE]
    ELSE LET img_path == annotations.keys[k]
             for_pathology == ForPathology(annotations.val[img_path], pathology)
             take == for_pathology # <<>> /\ Norm(img_path) \notin seen_paths
             result2 == IF take THEN Append(result, <<img_path, for_pathology>>) ELSE result
             seen2 == IF take THEN seen_paths \cup {Norm(img_path)} ELSE seen_paths
         IN  IF exclude_path # None /\ Norm(img_path) = Norm(exclude_path)
             THEN ScanStore(k + 1, result, seen_paths, pathology, limit, exclude_path)
             ELSE IF Len(result2) >= limit
             THEN [result |-> result2, seen |-> seen2, done |-> TRUE]
             ELSE ScanStore(k + 1, result2, seen2, pathology, limit, exclude_path)

\* the first image whose stem is the example's and that is not yet in the
\* result (479-483), or None
MatchingImage(stem, seen_paths) ==
    LET hits == {k \in 1..Len(images) :
                    Stem(images[k]) = stem /\ Norm(images[k]) \notin seen_paths}
    IN  IF hits = {} THEN None
        ELSE images[CHOOSE k \in hits : \A j \in hits : k <= j]

\* the loop over the bundled examples (472-483)
RECURSIVE ScanExamples(_, _, _, _)
ScanExamples(examples, result, seen_paths, limit) ==
    IF examples = <<>> \/ Len(result) >= limit THEN result
    ELSE LET ex == examples[1]
             img == MatchingImage(ex.image_stem, seen_paths)
         IN  IF ex.image_stem = "" \/ ex.annotations = <<>> \/ img = None
             THEN ScanExamples(Tail(examples), result, seen_paths, limit)
             ELSE ScanExamples(Tail(examples), Append(result, <<img, ex.annotations>>),
                               seen_paths \cup {Norm(img)}, limit)

\* the key under which the excluded image is found (484-493), or None:
\* as given, else a key with the same normalised path
ExcludedKey(exclude_path) ==
    IF ListOf(annotations, exclude_path) # <<>> THEN exclude_path
    ELSE LET hits == {k \in 1..Len(annotations.keys) :
                         Norm(annotations.keys[k]) = Norm(exclude_path)}
         IN  IF hits = {} THEN None
             ELSE annotations.keys[CHOOSE k \in hits : \A j \in hits : k <= j]

\* a fallback that returns the whole list of the excluded image
SelfReferenceWholeList(result, pathology, exclude_path) ==
    IF result # <<>> \/ exclude_path = None THEN result
    ELSE LET key == ExcludedKey(exclude_path)
             ann_list == IF key = None THEN <<>> ELSE annotations.val[key]
         IN  IF ForPathology(ann_list, pathology) # <<>> THEN <<<<key, ann_list>>>>
             ELSE result

\* the fallback on the excluded image itself (484-502)
SelfReference(result, pathology, exclude_path) ==
    IF result # <<>> \/ exclude_path = None THEN result
    ELSE LET key == ExcludedKey(exclude_path)
             for_pathology == IF key = None THEN <<>>
                              ELSE ForPathology(annotations.val[key], pathology)
         IN  IF for_pathology # <<>> THEN <<<<key, for_pathology>>>> ELSE result

\* DataManager.get_reference_images_for_pathology; examples is the content of
\* the bundled pathology_references file, empty when the file is missing or
\* unreadable
GetReferenceImagesForPathology(pathology, limit, exclude_path, examples) ==
    LET first == ScanStore(1, <<>>, {}, pathology, limit, exclude_path)
    IN  IF first.done THEN first.result
        ELSE SelfReference(
                 IF examples # <<>> /\ images # <<>>
                 THEN ScanExamples(examples, first.result, first.seen, limit)
                 ELSE first.result,
                 pathology, exclude_path)

\* an annotation of a bundled example
ExampleBox == [type |-> "box", x |-> 1, y |-> 1, width |-> 5, height |-> 5,
               pathology |-> "Mass"]

\* the bundled examples: none, or three of which the first names no image
BundledExamples ==
    { <<>>,
      <<[image_stem |-> "", annotations |-> <<ExampleBox>>],
        [image_stem |-> "a", annotations |-> <<ExampleBox>>],
        [image_stem |-> "b", annotations |-> <<ExampleBox>>]>> }

\* the pathologies asked for, the limits and the images excluded
ReferencePathologies == {"Mass", "Atelectasis"}
Limits == 0..MaxLimit
ExcludePaths == {None, pA, pAlias, pB, pX}

GetReferenceImagesCall(pathology, limit, exclude_path, examples) ==
    /\ out' = [op |-> "get_reference_images_for_pathology", pathology |-> pathology,
               limit |-> limit, exclude_path |-> exclude_path, examples |-> examples,
               result |-> GetReferenceImagesForPathology(pathology, limit, exclude_path,
                                                         examples)]
    /\ UNCHANGED <<fs, annotations_dir, dataset_path, images, metadata, annotations, tab>>

\* ------------------------------------------------------------------ export and import

\* DataManager._export_json: the images with a non-empty list
ExportJson ==
    LET exported == {k \in DOMAIN annotations.val : annotations.val[k] # <<>>}
    IN  [ext |-> ".json",
         data |-> [k \in exported |->
                     [metadata |-> Get(metadata, k, EmptyDict),
                      annotations |-> SerializeAnnotations(annotations.val[k])]]]

\* the header _export_csv writes first
CsvHeader ==
    <<"Image", "Pathology", "X", "Y", "Width", "Height", "Author", "Date", "Confidence">>

\* the row _export_csv writes for one annotation (562-574); confidence in tenths
ExportCsvRow(img_path, ann) ==
    <<img_path, Get(ann, "pathology", ""), Get(ann, "x", 0), Get(ann, "y", 0),
      Get(ann, "width", 0), Get(ann, "height", 0), Get(ann, "author", ""),
      Get(ann, "date", ""), Get(ann, "confidence", 10)>>

\* a CSV export that writes one row per image, for its first annotation
ExportCsvRowsFirstOnly(img_path, anns) ==
    IF anns = <<>> THEN <<>> ELSE <<ExportCsvRow(img_path, anns[1])>>

\* the rows of one image: for ann in annotations
ExportCsvRows(img_path, anns) == [i \in 1..Len(anns) |-> ExportCsvRow(img_path, anns[i])]

\* DataManager._export_csv: for img_path, annotations in self.annotations.items()
ExportCsv ==
    [ext |-> ".csv",
     header |-> CsvHeader,
     rows |-> Flatten([k \in 1..Len(annotations.keys) |->
                          ExportCsvRows(annotations.keys[k],
                                        annotations.val[annotations.keys[k]])])]

\* sorted() on pathology names: the names the store can hold, in string order
SortedNames ==
    <<"Atelectasis", "Mass", "Nodule", "Unknown">>

\* sorted(pathologies)
SortedPathologies(pathologies) ==
    LET Seen(name) == name \in pathologies IN SelectSeq(SortedNames, Seen)

\* the set the first loop of _export_coco collects (585-588)
ExportedPathologies ==
    {Get(a, "pathology", "Unknown") : a \in Range(Flatten(Values(annotations)))}

\* category_map: {path: idx + 1 for idx, path in enumerate(sorted(pathologies))}
CategoryMap(pathologies) ==
    LET names == SortedPathologies(pathologies)
    IN  [name \in Range(names) |-> CHOOSE i \in 1..Len(names) : names[i] = name]

\* Image.open(img_path).size, 1024 x 1024 when the file cannot be opened
ImageSize(img_path) ==
    IF img_path \in fs.tree THEN [width |-> 2048, height |-> 2048]
    ELSE [width |-> 1024, height |-> 1024]

\* the entry _export_coco appends for one annotation (609-622)
CocoAnnotation(ann, annotation_id, image_id, category_map) ==
    [id |-> annotation_id,
     image_id |-> image_id,
     category_id |-> Get(category_map, Get(ann, "pathology", "Unknown"), 1),
     bbox |-> <<Get(ann, "x", 0), Get(ann, "y", 0), Get(ann, "width", 0),
                Get(ann, "height", 0)>>,
     area |-> Get(ann, "width", 0) * Get(ann, "height", 0),
     iscrowd |-> 0]

\* a loop that numbers an image by its place among all the keys of the store
RECURSIVE CocoLoopNumberAllKeys(_, _, _, _)
CocoLoopNumberAllKeys(k, coco, annotation_id, category_map) ==
    IF k > Len(annotations.keys) THEN coco
    ELSE LET img_path == annotations.keys[k]
             anns == annotations.val[img_path]
             size == ImageSize(img_path)
         IN  IF anns = <<>>
             THEN CocoLoopNumberAllKeys(k + 1, coco, annotation_id, category_map)
             ELSE CocoLoopNumberAllKeys(k + 1,
                      [images |-> Append(coco.images,
                                         [id |-> k, file_name |-> FileName(img_path),
                                          width |-> size.width, height |-> size.height]),
                       annotations |-> coco.annotations \o
                           [i \in 1..Len(anns) |->
                               CocoAnnotation(anns[i], annotation_id + i - 1, k,
                                              category_map)]],
                      annotation_id + Len(anns), category_map)

\* the loop over self.annotations.items() (593-623), from the k-th key on
RECURSIVE CocoLoop(_, _, _, _)
CocoLoop(k, coco, annotation_id, category_map) ==
    IF k > Len(annotations.keys) THEN coco
    ELSE LET img_path == annotations.keys[k]
             anns == annotations.val[img_path]
             size == ImageSize(img_path)
             image_id == Len(coco.images) + 1
         IN  IF anns = <<>> THEN CocoLoop(k + 1, coco, annotation_id, category_map)
             ELSE CocoLoop(k + 1,
                      [images |-> Append(coco.images,
                                         [id |-> image_id, file_name |-> FileName(img_path),
                                          width |-> size.width, height |-> size.height]),
                       annotations |-> coco.annotations \o
                           [i \in 1..Len(anns) |->
                               CocoAnnotation(anns[i], annotation_id + i - 1, image_id,
                                              category_map)]],
                      annotation_id + Len(anns), category_map)

\* DataManager._export_coco
ExportCoco ==
    LET names == SortedPathologies(ExportedPathologies)
        category_map == CategoryMap(ExportedPathologies)
        coco == CocoLoop(1, [images |-> <<>>, annotations |-> <<>>], 1, category_map)
    IN  [ext |-> ".coco",
         info |-> [description |-> "Radiography annotations"],
         images |-> coco.images,
         annotations |-> coco.annotations,
         categories |-> [i \in 1..Len(names) |-> [id |-> category_map[names[i]],
                                                  name |-> names[i]]]]

\* no file is written
NothingWritten == [ext |-> None]

\* the format names a caller passes: three the method knows and one it does not
ExportFormats == {"JSON", "CSV", "COCO", "XML"}

\* DataManager.export_annotations: the if / elif chain has no else branch (the
\* YOLO branch is not taken for the names of ExportFormats); the
\* method returns None on every path and raises nothing
ExportAnnotations(format_type) ==
    [file |-> IF format_type = "JSON" THEN ExportJson
              ELSE IF format_type = "CSV" THEN ExportCsv
              ELSE IF format_type = "COCO" THEN ExportCoco
              ELSE NothingWritten,
     returned |-> None,
     raised |-> None]

ExportAnnotationsCall(format_type) ==
    LET r == ExportAnnotations(format_type)
    IN  /\ out' = [op |-> "export_annotations", format_type |-> format_type,
                   file |-> r.file, returned |-> r.returned, raised |-> r.raised]
        /\ UNCHANGED <<fs, annotations_dir, dataset_path, images, metadata, annotations, tab>>

CsvRow(image, pathology, x, y, width, height, author, date, confidence) ==
    [Image |-> image, Pathology |-> pathology, X |-> x, Y |-> y, Width |-> width,
     Height |-> height, Author |-> author, Date |-> date, Confidence |-> confidence]

\* annotation CSV files a user may pick: the file of test_import_csv with a
\* second row for the same image, and a file whose second row has a
\* non-numeric X
CsvWellFormed ==
    [ext |-> ".csv",
     rows |-> <<CsvRow(pA, "Pneumonia", "5", "10", "20", "30", "test_user", "2025-01-01", "1.0"),
                CsvRow(pA, "Mass", "1", "2", "3", "4", "test_user", "2025-01-01", "0.5")>>]
CsvBadX ==
    [ext |-> ".csv",
     rows |-> <<CsvRow(pA, "Pneumonia", "5", "10", "20", "30", "test_user", "2025-01-01", "1.0"),
                CsvRow(pA, "Mass", "abc", "2", "3", "4", "test_user", "2025-01-01", "1.0")>>]

ImportFiles == {CsvWellFormed, CsvBadX}

\* float(cell) succeeds on a coordinate cell of an annotation CSV
IsFloatCell(cell) == IsNumber(cell)

\* the annotation a CSV row spells, numeric cells parsed as floats
AnnotationOfCsvRow(row) ==
    [type |-> "box", x |-> NumberOf(row.X), y |-> NumberOf(row.Y),
     width |-> NumberOf(row.Width), height |-> NumberOf(row.Height),
     pathology |-> row.Pathology, author |-> row.Author, date |-> row.Date,
     confidence |-> IF row.Confidence = "0.5" THEN 5 ELSE 10]

RowParses(row) ==
    IsFloatCell(row.X) /\ IsFloatCell(row.Y) /\ IsFloatCell(row.Width) /\ IsFloatCell(row.Height)

\* an import that appends row by row and raises at the first bad cell
RECURSIVE AppendCsvRows(_, _)
AppendCsvRows(store, rows) ==
    IF rows = <<>> THEN [raised |-> None, store |-> store]
    ELSE IF ~RowParses(rows[1]) THEN [raised |-> "ValueError", store |-> store]
    ELSE AppendCsvRows(Set(store, rows[1].Image,
                           Append(ListOf(store, rows[1].Image), AnnotationOfCsvRow(rows[1]))),
                       Tail(rows))

ImportAnnotationsRowByRow(store, file) ==
    IF file.ext = ".csv" THEN AppendCsvRows(store, file.rows)
    ELSE [raised |-> None, store |-> store]

\* self.data_manager.import_annotations(filename): DataManager defines no
\* import_annotations, so the attribute lookup raises AttributeError before
\* the file is opened and the store is as it was.
ImportAnnotations(store, file) == [raised |-> "AttributeError", store |-> store]

\* MainWindow._import_annotations: the try block, and the except branch that
\* reports the error in a message box
ImportAnnotationsCall(file) ==
    LET r == ImportAnnotations(annotations, file)
    IN  /\ annotations' = r.store
        /\ out' = [op |-> "import_annotations", file |-> file, error |-> r.raised]
        /\ TabSees(annotations')
        /\ UNCHANGED <<fs, annotations_dir, dataset_path, images, metadata>>

\* The second half of test_export_import_json, on the file the export just
\* wrote: dm2 = DataManager(); dm2.load_dataset(same folder);
\* dm2.import_annotations(file).  The session goes on with dm2.
FreshImport(now) ==
    /\ out.op = "export_annotations"
    /\ out.file.ext = ".json"
    /\ dataset_path' = Root
    /\ images' = DiscoverImages(fs.tree)
    /\ metadata' = LoadMetadata(fs, images', now)
    /\ LET r == ImportAnnotations(LoadAnnotations(fs, images', annotations_dir, now), out.file)
       IN  /\ annotations' = r.store
           /\ out' = [op |-> "fresh_import", file |-> out.file, error |-> r.raised]
    /\ TabLosesStore
    /\ UNCHANGED <<fs, annotations_dir>>

\* ------------------------------------------------------------------ the annotation tab

\* the length past which save_state drops the oldest snapshot (707)
HistoryCap == 50

\* save_state with no limit on the length of the history
SaveStateNoCap(hist, index) ==
    LET kept == IF index < Len(hist) - 1 THEN SubSeq(hist, 1, index + 1) ELSE hist
        pushed == Append(kept, [annotations |-> current_annotations,
                                image_path |-> current_image_path])
    IN  [history |-> pushed, history_index |-> Len(pushed) - 1]

\* AnnotationsTab.save_state: the history and the index it leaves.  Python
\* counts from 0: history[history_index] is hist[index + 1] here.
SaveState(hist, index) ==
    LET kept == IF index < Len(hist) - 1 THEN SubSeq(hist, 1, index + 1) ELSE hist
        pushed == Append(kept, [annotations |-> current_annotations,
                                image_path |-> current_image_path])
    IN  IF Len(pushed) > HistoryCap
        THEN [history |-> Tail(pushed), history_index |-> Len(pushed) - 1 - 1]
        ELSE [history |-> pushed, history_index |-> Len(pushed) - 1]

\* save_state called on its own
SaveStateCall ==
    LET saved == SaveState(history, history_index)
    IN  /\ history' = saved.history
        /\ history_index' = saved.history_index
        /\ out' = [op |-> "save_state", dropped |-> Len(history) >= HistoryCap]
        /\ UNCHANGED <<fs, annotations_dir, dataset_path, images, metadata, annotations,
                       current_image_path, current_annotations, bound>>

\* AnnotationsTab.load_image: the path, then refresh_annotations (602-609),
\* which takes the store's list, or a new empty list for a missing key
LoadImage(image_path) ==
    /\ current_image_path' = image_path
    /\ current_annotations' = GetImageAnnotations(image_path)
    /\ bound' = Has(annotations, image_path)
    /\ out' = [op |-> "load_image", image_path |-> image_path]
    /\ UNCHANGED <<fs, annotations_dir, dataset_path, images, metadata, annotations,
                   history, history_index>>

\* the 0-based index of the current image among the images; the current
\* image of the tab is always one of them here, so the fallback on
\* data_manager.current_image_index (its initial 0) is never taken
IndexOfCurrent ==
    LET hits == {i \in 1..Len(images) : images[i] = current_image_path}
    IN  IF hits = {} THEN 0 ELSE (CHOOSE i \in hits : \A j \in hits : i <= j) - 1

\* AnnotationsTab.go_to_next_image
GoToNextImage ==
    /\ images # <<>>
    /\ LET new_idx == IF current_image_path = None THEN 0
                      ELSE (IndexOfCurrent + 1) % Len(images)
       IN  LoadImage(images[new_idx + 1])

\* AnnotationsTab.go_to_previous_image
GoToPreviousImage ==
    /\ images # <<>>
    /\ LET new_idx == IF current_image_path = None THEN Len(images) - 1
                      ELSE (IndexOfCurrent - 1) % Len(images)
       IN  LoadImage(images[new_idx + 1])

\* the user of the session
current_user == "alice"

\* the box the canvas hands over (285-293), drawn with the default colour
CanvasBox(pathology) ==
    [type |-> "box", x |-> 10, y |-> 20, width |-> 30, height |-> 40,
     pathology |-> pathology, color |-> QColor(255, 0, 0, 255)]

\* AnnotationCanvas.current_pathology as the canvas is built (228)
current_pathology == "Atelectasis"

\* the pathologies chosen in the dialog of edit_annotation
TabPathologies == {"Atelectasis", "Mass"}

\* d[k] = v on a dict
WithKey(d, k, v) == [key \in DOMAIN d \cup {k} |-> IF key = k THEN v ELSE d[key]]

\* what a change handler reports: the list before it
Changed(name) ==
    [op |-> name, image_path |-> current_image_path, before |-> current_annotations]

\* AnnotationsTab.on_annotation_created
OnAnnotationCreated(annotation, now) ==
    LET saved == SaveState(history, history_index)
        signed == WithKey(WithKey(WithKey(annotation, "author", current_user),
                                  "date", now), "confidence", 10)
        appended == Append(current_annotations, signed)
    IN  /\ history' = saved.history
        /\ history_index' = saved.history_index
        /\ current_annotations' = appended
        /\ annotations' = IF current_image_path # None
                          THEN Set(annotations, current_image_path, appended)
                          ELSE annotations
        /\ bound' = (current_image_path # None)
        /\ out' = Changed("on_annotation_created")
        /\ UNCHANGED <<fs, annotations_dir, dataset_path, images, metadata,
                       current_image_path>>

\* AnnotationsTab.edit_annotation on the idx-th item of the list widget, with
\* the dialog accepted: the dict is changed in place, so the store sees the
\* change only when the tab's list is the store's; refresh_annotations then
\* takes the store's list
EditAnnotation(idx, pathology) ==
    /\ current_image_path # None
    /\ idx \in 0..(Len(current_annotations) - 1)
    /\ LET saved == SaveState(history, history_index)
           edited == [current_annotations EXCEPT ![idx + 1] = WithKey(@, "pathology", pathology)]
           store == IF bound THEN Set(annotations, current_image_path, edited)
                    ELSE annotations
       IN  /\ history' = saved.history
           /\ history_index' = saved.history_index
           /\ annotations' = store
           /\ current_annotations' = ListOf(store, current_image_path)
           /\ bound' = Has(store, current_image_path)
           /\ out' = Changed("edit_annotation")
    /\ UNCHANGED <<fs, annotations_dir, dataset_path, images, metadata, current_image_path>>

\* AnnotationsTab.delete_annotation on the idx-th item of the list widget,
\* with the question answered by Yes
TabDeleteAnnotation(idx) ==
    /\ current_image_path # None
    /\ idx \in 0..(Len(current_annotations) - 1)
    /\ LET saved == SaveState(history, history_index)
           deleted == DelAt(current_annotations, idx)
       IN  /\ history' = saved.history
           /\ history_index' = saved.history_index
           /\ annotations' = Set(annotations, current_image_path, deleted)
           /\ current_annotations' = deleted
           /\ bound' = TRUE
           /\ out' = Changed("delete_annotation")
    /\ UNCHANGED <<fs, annotations_dir, dataset_path, images, metadata, current_image_path>>

\* what undo and redo do with the snapshot at the new index (714-720, 725-731)
Restore(name, index) ==
    LET state == history[index + 1]
    IN  /\ history_index' = index
        /\ current_annotations' = state.annotations
        /\ annotations' = IF current_image_path # None
                          THEN Set(annotations, current_image_path, state.annotations)
                          ELSE annotations
        /\ bound' = (current_image_path # None)
        /\ out' = [op |-> name, applied |-> TRUE, image_path |-> current_image_path,
                   before |-> current_annotations]
        /\ UNCHANGED <<fs, annotations_dir, dataset_path, images, metadata,
                       current_image_path, history>>

\* undo or redo with nothing to step to
NotRestored(name) ==
    /\ out' = [op |-> name, applied |-> FALSE, image_path |-> current_image_path,
               before |-> current_annotations]
    /\ UNCHANGED <<fs, annotations_dir, dataset_path, images, metadata, annotations, tab>>

\* AnnotationsTab.undo
Undo ==
    IF history_index > 0 THEN Restore("undo", history_index - 1)
    ELSE NotRestored("undo")

\* AnnotationsTab.redo
Redo ==
    IF history_index < Len(history) - 1 THEN Restore("redo", history_index + 1)
    ELSE NotRestored("redo")

\* DataManager._parse_pathologies applied to a row with the given cell
ParsePathologiesCall(cell) ==
    /\ out' = [op |-> "_parse_pathologies", cell |-> cell,
               result |-> ParsePathologies([c \in {"Finding Labels"} |-> cell])]
    /\ UNCHANGED <<fs, annotations_dir, dataset_path, images, metadata, annotations, tab>>

\* the paths a session passes: the files of its folder and one outside it
SessionPaths == fs.tree \cup {pX}

\* the indices a caller passes: negative, in range, past the end
Indices == -1..MaxAnns

\* A session opens a dataset folder before it edits: the tabs and the tests
\* of the repository change the store only after load_dataset.
Loaded == dataset_path # None

\* the store holds fewer than MaxAnns annotations
RoomToAdd == TotalAnnotations(annotations) < MaxAnns

\* the undo history holds fewer than MaxHistory snapshots
RoomInHistory == Len(history) < MaxHistory

\* the annotations folder holds the image's file already, or fewer than
\* MaxUnits files
RoomToSave(image_path) ==
    \/ Stem(image_path) \in DOMAIN annotations_dir
    \/ Cardinality(DOMAIN annotations_dir) < MaxUnits

Next ==
    \/ \E now \in Times : LoadDataset(now)
    \/ Loaded /\ RoomToAdd /\ \E p \in SessionPaths, a \in UserAnnotations : AddAnnotation(p, a)
    \/ Loaded /\ \E p \in SessionPaths, i \in Indices, a \in UserAnnotations :
          UpdateAnnotation(p, i, a)
    \/ Loaded /\ \E p \in SessionPaths, i \in Indices : DeleteAnnotation(p, i)
    \/ Loaded /\ \E p \in SessionPaths, now \in Times : RoomToSave(p) /\ SaveAnnotations(p, now)
    \/ \E p \in SessionPaths : GetImageAnnotationsCall(p)
    \/ Statistics
    \/ \E from_csv_only \in BOOLEAN : CooccurrenceData(from_csv_only)
    \/ \E filters \in FilterInputs : FilterImagesCall(filters)
    \/ Loaded /\ \E format_type \in ExportFormats : ExportAnnotationsCall(format_type)
    \/ Loaded /\ \E file \in ImportFiles : ImportAnnotationsCall(file)
    \/ \E now \in Times : FreshImport(now)
    \/ \E cell \in Cells : ParsePathologiesCall(cell)
    \/ \E pathology \in ReferencePathologies, limit \in Limits,
          exclude_path \in ExcludePaths, examples \in BundledExamples :
          GetReferenceImagesCall(pathology, limit, exclude_path, examples)
    \/ \E csv \in FolderCsvFiles : CooccurrenceFromCsvCall(csv)
    \/ \E p \in Range(images) : LoadImage(p)
    \/ GoToNextImage
    \/ GoToPreviousImage
    \/ RoomToAdd /\ RoomInHistory /\ \E now \in Times :
          OnAnnotationCreated(CanvasBox(current_pathology), now)
    \/ RoomInHistory /\ \E idx \in Indices, pathology \in TabPathologies :
          EditAnnotation(idx, pathology)
    \/ RoomInHistory /\ \E idx \in Indices : TabDeleteAnnotation(idx)
    \/ SaveStateCall
    \/ Undo
    \/ Redo

Spec == Init /\ [][Next]_vars

\* An editing session that never writes to disk: load, the three mutators,
\* the three queries and the import.
SessionNext ==
    \/ \E now \in Times : LoadDataset(now)
    \/ Loaded /\ RoomToAdd /\ \E p \in SessionPaths, a \in UserAnnotations : AddAnnotation(p, a)
    \/ Loaded /\ \E p \in SessionPaths, i \in Indices, a \in UserAnnotations :
          UpdateAnnotation(p, i, a)
    \/ Loaded /\ \E p \in SessionPaths, i \in Indices : DeleteAnnotation(p, i)
    \/ \E p \in SessionPaths : GetImageAnnotationsCall(p)
    \/ Statistics
    \/ \E from_csv_only \in BOOLEAN : CooccurrenceData(from_csv_only)
    \/ \E filters \in FilterInputs : FilterImagesCall(filters)
    \/ Loaded /\ \E file \in ImportFiles : ImportAnnotationsCall(file)

SpecSession == Init /\ [][SessionNext]_vars

\* The parser on its own, over every cell of Cells.
ParseNext == \E cell \in Cells : ParsePathologiesCall(cell)

SpecParse == Init /\ [][ParseNext]_vars

\* The store and its mutators alone: load, add, update, delete and the
\* annotation query.
EditNext ==
    \/ \E now \in Times : LoadDataset(now)
    \/ Loaded /\ RoomToAdd /\ \E p \in SessionPaths, a \in UserAnnotations : AddAnnotation(p, a)
    \/ Loaded /\ \E p \in SessionPaths, i \in Indices, a \in UserAnnotations :
          UpdateAnnotation(p, i, a)
    \/ Loaded /\ \E p \in SessionPaths, i \in Indices : DeleteAnnotation(p, i)
    \/ \E p \in SessionPaths : GetImageAnnotationsCall(p)

SpecEdit == Init /\ [][EditNext]_vars

\* A session that edits and asks for the statistics.
StatisticsNext ==
    \/ \E now \in Times : LoadDataset(now)
    \/ Loaded /\ RoomToAdd /\ \E p \in SessionPaths, a \in UserAnnotations : AddAnnotation(p, a)
    \/ Loaded /\ \E p \in SessionPaths, i \in Indices, a \in UserAnnotations :
          UpdateAnnotation(p, i, a)
    \/ Loaded /\ \E p \in SessionPaths, i \in Indices : DeleteAnnotation(p, i)
    \/ Statistics

SpecStatistics == Init /\ [][StatisticsNext]_vars

\* A session that edits, exports and imports.
ExportNext ==
    \/ \E now \in Times : LoadDataset(now)
    \/ Loaded /\ RoomToAdd /\ \E p \in SessionPaths, a \in UserAnnotations : AddAnnotation(p, a)
    \/ Loaded /\ \E p \in SessionPaths, i \in Indices, a \in UserAnnotations :
          UpdateAnnotation(p, i, a)
    \/ Loaded /\ \E p \in SessionPaths, i \in Indices : DeleteAnnotation(p, i)
    \/ Loaded /\ \E format_type \in ExportFormats : ExportAnnotationsCall(format_type)
    \/ Loaded /\ \E file \in ImportFiles : ImportAnnotationsCall(file)
    \/ \E now \in Times : FreshImport(now)

SpecExport == Init /\ [][ExportNext]_vars

\* A session that edits and looks up reference images.
ReferenceNext ==
    \/ \E now \in Times : LoadDataset(now)
    \/ Loaded /\ RoomToAdd /\ \E p \in SessionPaths, a \in UserAnnotations : AddAnnotation(p, a)
    \/ Loaded /\ \E p \in SessionPaths, i \in Indices, a \in UserAnnotations :
          UpdateAnnotation(p, i, a)
    \/ Loaded /\ \E p \in SessionPaths, i \in Indices : DeleteAnnotation(p, i)
    \/ \E pathology \in ReferencePathologies, limit \in Limits,
          exclude_path \in ExcludePaths, examples \in BundledExamples :
          GetReferenceImagesCall(pathology, limit, exclude_path, examples)

SpecReference == Init /\ [][ReferenceNext]_vars

\* A session that edits and computes the co-occurrence matrix both ways.
AnalysisNext ==
    \/ \E now \in Times : LoadDataset(now)
    \/ Loaded /\ RoomToAdd /\ \E p \in SessionPaths, a \in UserAnnotations : AddAnnotation(p, a)
    \/ Loaded /\ \E p \in SessionPaths, i \in Indices, a \in UserAnnotations :
          UpdateAnnotation(p, i, a)
    \/ Loaded /\ \E p \in SessionPaths, i \in Indices : DeleteAnnotation(p, i)
    \/ \E from_csv_only \in BOOLEAN : CooccurrenceData(from_csv_only)
    \/ \E csv \in FolderCsvFiles : CooccurrenceFromCsvCall(csv)

SpecAnalysis == Init /\ [][AnalysisNext]_vars

\* A session in the annotation tab: the dataset is loaded once, images are
\* visited, annotations are drawn, edited and deleted, and the changes are
\* undone and redone.
TabNext ==
    \/ ~Loaded /\ \E now \in Times : LoadDataset(now)
    \/ \E p \in Range(images) : LoadImage(p)
    \/ GoToNextImage
    \/ GoToPreviousImage
    \/ RoomToAdd /\ RoomInHistory /\ \E now \in Times :
          OnAnnotationCreated(CanvasBox(current_pathology), now)
    \/ RoomInHistory /\ \E idx \in Indices, pathology \in TabPathologies :
          EditAnnotation(idx, pathology)
    \/ RoomInHistory /\ \E idx \in Indices : TabDeleteAnnotation(idx)
    \/ Undo
    \/ Redo

SpecTab == Init /\ [][TabNext]_vars

\* The undo history on its own: save_state, undo and redo in any order.
HistoryNext ==
    \/ SaveStateCall
    \/ Undo
    \/ Redo

SpecHistory == Init /\ [][HistoryNext]_vars

\* A session that annotates, saves and reloads: load, add_annotation and
\* save_annotations.
PersistNext ==
    \/ \E now \in Times : LoadDataset(now)
    \/ Loaded /\ RoomToAdd /\ \E p \in SessionPaths, a \in UserAnnotations : AddAnnotation(p, a)
    \/ Loaded /\ \E p \in SessionPaths, now \in Times : RoomToSave(p) /\ SaveAnnotations(p, now)

SpecPersist == Init /\ [][PersistNext]_vars


\* ------------------------------------------------------------------ claims

JustLoaded == out.op = "load_dataset"

\* C1: immediately after load_dataset returns, the metadata map holds exactly
\* one entry per discovered image, whatever the metadata CSV covers.
C1_OneMetadataPerImage ==
    JustLoaded =>
        /\ Cardinality(DOMAIN metadata) = Len(images)
        /\ \A i \in 1..Len(images) : images[i] \in DOMAIN metadata

\* the well-formed rows of the bounding-box file that name image p, in row order
SeedRowsFor(p) ==
    SelectSeq(fs.bbox.rows,
              LAMBDA row : /\ Get(row, "Image Index", "") # ""
                           /\ ResolveRow(fs.tree, Get(row, "Image Index", "")) = p
                           /\ QuadOk(Get(row, "Bbox [x,y,w,h]", <<>>)))

IsSeedOf(ann, row) ==
    /\ {"x", "y", "width", "height", "pathology", "author", "confidence"} \subseteq DOMAIN ann
    /\ ann.author = "auto_bbox"
    /\ ann.confidence = AutoBBoxConfidence
    /\ ann.x = NumberOf(row["Bbox [x,y,w,h]"][1])
    /\ ann.y = NumberOf(row["Bbox [x,y,w,h]"][2])
    /\ ann.width = NumberOf(row["Bbox [x,y,w,h]"][3])
    /\ ann.height = NumberOf(row["Bbox [x,y,w,h]"][4])
    /\ ann.pathology = CellStr(row["Finding Label"])

\* C2: after load_dataset on a folder with BBox_List_2017.csv, every discovered
\* image without a saved file holds, in row order, one auto_bbox annotation of
\* confidence 0.5 per well-formed bbox row naming it.
C2_SeedsKeptAfterLoad ==
    (JustLoaded /\ fs.bbox.exists) =>
        \A p \in Range(images) :
            Stem(p) \notin DOMAIN annotations_dir =>
                LET rows == SeedRowsFor(p)
                    anns == ListOf(annotations, p)
                IN  /\ Len(anns) = Len(rows)
                    /\ \A i \in 1..Len(rows) : IsSeedOf(anns[i], rows[i])

\* C3: after load_dataset, every discovered image that has a saved file holds
\* exactly the saved annotation list, in its order, with no seed mixed in.
C3_SavedFileWins ==
    JustLoaded =>
        \A p \in Range(images) :
            Stem(p) \in DOMAIN annotations_dir =>
                /\ Has(annotations, p)
                /\ SerializeAnnotations(annotations.val[p])
                     = annotations_dir[Stem(p)].annotations

\* a load that found a non-empty saved file for an image the bbox file also seeds
C3_Witness ==
    /\ JustLoaded
    /\ fs.bbox.exists
    /\ \E p \in Range(images) :
          /\ Stem(p) \in DOMAIN annotations_dir
          /\ annotations_dir[Stem(p)].annotations # <<>>
          /\ annotations.val[p] # <<>>
          /\ SeedRowsFor(p) # <<>>

\* the (pathology, x, y, width, height, author, confidence) part of an annotation
Tuple7(ann) ==
    [k \in DOMAIN ann \cap {"pathology", "x", "y", "width", "height", "author", "confidence"}
        |-> ann[k]]

\* the multiset of the Tuple7 of a list
TupleBag(anns) ==
    LET tuples == {Tuple7(anns[i]) : i \in 1..Len(anns)}
    IN  [t \in tuples |-> Cardinality({i \in 1..Len(anns) : Tuple7(anns[i]) = t})]

\* C4: exporting to JSON and importing the file into a fresh store loaded from
\* the same dataset reproduces, for every exported image, the same multiset of
\* (pathology, x, y, width, height, author, confidence) tuples.
C4_JsonRoundTrip ==
    out.op = "fresh_import" =>
        \A p \in DOMAIN out.file.data :
            TupleBag(ListOf(annotations, p)) = TupleBag(out.file.data[p].annotations)

HasNonNumericX(file) ==
    file.ext = ".csv" /\ \E i \in 1..Len(file.rows) : ~IsFloatCell(file.rows[i].X)

ImportStep(file) ==
    /\ out'.op = "import_annotations"
    /\ out'.file = file
    /\ out' # out

\* C5: importing a CSV file with a non-numeric X reports an error and leaves
\* the annotation store exactly as it was, rows before the bad one included.
C5_BadCsvImportLeavesStore ==
    [][\A file \in ImportFiles :
          (ImportStep(file) /\ HasNonNumericX(file)) =>
              (out'.error # None /\ annotations' = annotations)]_vars

\* an import of the file with the bad X was reported as an error, on a store
\* that holds annotations
C5_Witness ==
    /\ out.op = "import_annotations"
    /\ HasNonNumericX(out.file)
    /\ out.error # None
    /\ TotalAnnotations(annotations) > 0

\* the rows of a CSV file that name image p, in row order
CsvRowsFor(file, p) == SelectSeq(file.rows, LAMBDA row : row.Image = p)

\* C6: importing a well-formed annotation CSV appends one annotation per data
\* row to the list of the image the row names, coordinates parsed as floats,
\* the existing annotations kept in front.
C6_CsvImportAppends ==
    [][\A file \in ImportFiles :
          (ImportStep(file) /\ ~HasNonNumericX(file)) =>
              \A p \in {file.rows[i].Image : i \in 1..Len(file.rows)} :
                  LET old == ListOf(annotations, p)
                      new == ListOf(annotations', p)
                      rows == CsvRowsFor(file, p)
                  IN  /\ Len(new) = Len(old) + Len(rows)
                      /\ SubSeq(new, 1, Len(old)) = old
                      /\ \A k \in 1..Len(rows) :
                             /\ new[Len(old) + k].x = NumberOf(rows[k].X)
                             /\ new[Len(old) + k].y = NumberOf(rows[k].Y)
                             /\ new[Len(old) + k].width = NumberOf(rows[k].Width)
                             /\ new[Len(old) + k].height = NumberOf(rows[k].Height)
                             /\ new[Len(old) + k].pathology = rows[k].Pathology]_vars

\* the number of images whose pathology set holds a label
ImagesWith(label, from_csv_only) ==
    Cardinality({k \in 1..Len(images) : label \in ImagePathologies(images[k], from_csv_only)})

\* the sum of all entries of a matrix
MatrixTotal(matrix) ==
    SumSeq([i \in 1..Len(matrix) |-> SumSeq(matrix[i])])

\* the number of vocabulary labels in the pathology set of the k-th image
VocabularyCount(k, from_csv_only) ==
    Cardinality({l \in ImagePathologies(images[k], from_csv_only) : InVocabulary(l)})

\* C7: get_cooccurrence_data returns the 14 vocabulary labels in their fixed
\* order and a symmetric 14x14 matrix whose diagonal counts the images holding
\* each label; labels outside the vocabulary add nothing.
C7_Cooccurrence ==
    out.op = "get_cooccurrence_data" =>
        LET labels == out.result.labels
            matrix == out.result.matrix
            flag == out.from_csv_only
        IN  /\ labels = PATHOLOGY_ORDER
            /\ Len(labels) = 14
            /\ Len(matrix) = 14
            /\ \A i \in 1..14 : Len(matrix[i]) = 14
            /\ \A i, j \in 1..14 : matrix[i][j] = matrix[j][i]
            /\ \A i \in 1..14 : matrix[i][i] = ImagesWith(labels[i], flag)
            /\ MatrixTotal(matrix)
                 = SumSeq([k \in 1..Len(images) |->
                             VocabularyCount(k, flag) * VocabularyCount(k, flag)])

\* a matrix with a pair of distinct labels counted, computed from annotations
\* because the image has no metadata label
C7_Witness ==
    /\ out.op = "get_cooccurrence_data"
    /\ ~out.from_csv_only
    /\ \E i, j \in 1..14 : i # j /\ out.result.matrix[i][j] > 0
    /\ \E k \in 1..Len(images) :
          /\ Get(Get(metadata, images[k], EmptyDict), "pathologies", <<>>) = <<>>
          /\ Cardinality(ImagePathologies(images[k], FALSE)) >= 2

\* Suffix(p).lower() is one of the three image extensions
IsImageFile(p) ==
    Suffix(p) \in {".png", ".PNG", ".Png", ".jpg", ".JPG", ".jpeg", ".JPEG"}

\* C8: load_dataset discovers as many images as there are files under the root
\* whose extension is .png, .jpg or .jpeg in any letter case, and the sequence
\* is sorted without duplicates.
C8_CaseInsensitiveDiscovery ==
    JustLoaded =>
        /\ Len(images) = Cardinality({p \in fs.tree : IsImageFile(p)})
        /\ \A i, j \in 1..Len(images) : i < j => Rank(images[i]) < Rank(images[j])

\* the position of an image in the image list
PositionOf(p) == CHOOSE i \in 1..Len(images) : images[i] = p

\* C9: filter_images returns a duplicate-free subsequence of the image list in
\* discovery order, and every image for the empty criteria.
C9_FilterSubsequence ==
    out.op = "filter_images" =>
        LET result == out.result
        IN  /\ \A i \in 1..Len(result) : result[i] \in Range(images)
            /\ \A i, j \in 1..Len(result) :
                   i < j => PositionOf(result[i]) < PositionOf(result[j])
            /\ out.filters = EmptyDict => result = images

\* the empty criteria returned two images or more, or some criteria kept one
\* image of several
C9_Witness ==
    /\ out.op = "filter_images"
    /\ out.filters = EmptyDict
    /\ Len(out.result) >= 2

\* the sum of the counts of a tally
RECURSIVE SumCounts(_)
SumCounts(tally) ==
    IF DOMAIN tally = {} THEN 0
    ELSE LET k == CHOOSE x \in DOMAIN tally : TRUE
         IN  tally[k] + SumCounts([x \in DOMAIN tally \ {k} |-> tally[x]])

\* every (key, position) that holds an annotation
AnnotationSlots ==
    UNION {{<<k, i>> : i \in 1..Len(annotations.val[k])} : k \in DOMAIN annotations.val}

\* C10: get_statistics reports total_annotations equal to the sum of the list
\* lengths, to the sum of the per-pathology counts and to the sum of the
\* per-author counts, and annotated_images equal to the number of non-empty
\* lists; before any load every count is zero and both maps are empty.
C10_Statistics ==
    out.op = "get_statistics" =>
        LET stats == out.stats
        IN  /\ stats.total_annotations = Cardinality(AnnotationSlots)
            /\ stats.total_annotations = SumCounts(stats.annotations_by_pathology)
            /\ stats.total_annotations = SumCounts(stats.annotations_by_author)
            /\ stats.annotated_images
                 = Cardinality({k \in DOMAIN annotations.val : annotations.val[k] # <<>>})
            /\ stats.total_images = Len(images)
            /\ dataset_path = None =>
                 /\ stats.total_images = 0
                 /\ stats.annotated_images = 0
                 /\ stats.total_annotations = 0
                 /\ stats.annotations_by_pathology = EmptyDict
                 /\ stats.annotations_by_author = EmptyDict

\* statistics over a store of two lists, one of them holding an annotation
\* that names no author
C10_Witness ==
    /\ out.op = "get_statistics"
    /\ out.stats.total_annotations >= 2
    /\ out.stats.annotated_images >= 2
    /\ "Unknown" \in DOMAIN out.stats.annotations_by_author


\* the index is negative or past the end of the image's list, or the image has
\* no list
OutOfRange(p, i) ==
    \/ p \notin DOMAIN annotations.val
    \/ i < 0
    \/ i >= Len(annotations.val[p])

\* C11: update_annotation and delete_annotation with an index that is negative
\* or not below the length of the image's list, or with a path that has no
\* entry, raise nothing and leave every list of the store as it was.
C11_OutOfRangeIsNoOp ==
    [][\A p \in SessionPaths, i \in Indices :
          (/\ OutOfRange(p, i)
           /\ \/ \E a \in UserAnnotations : UpdateAnnotation(p, i, a)
              \/ DeleteAnnotation(p, i))
          => /\ annotations' = annotations
             /\ out'.raised = None]_vars

\* an update or a delete whose bounds check failed, on a store that holds an
\* annotation
C11_Witness ==
    /\ out.op \in {"update_annotation", "delete_annotation"}
    /\ ~out.applied
    /\ TotalAnnotations(annotations) >= 1

\* C12: add_annotation(path, a) makes the list of path its former list followed
\* by a, also when an equal annotation is already there and when path had no
\* entry, and leaves every other list, the metadata and the image list alone.
C12_AddAppends ==
    [][\A p \in SessionPaths, a \in UserAnnotations :
          AddAnnotation(p, a)
          => /\ DOMAIN annotations'.val = DOMAIN annotations.val \cup {p}
             /\ annotations'.val[p]
                  = (IF p \in DOMAIN annotations.val THEN annotations.val[p] ELSE <<>>)
                    \o <<a>>
             /\ \A q \in DOMAIN annotations.val \ {p} :
                    annotations'.val[q] = annotations.val[q]
             /\ metadata' = metadata
             /\ images' = images]_vars

\* an add that created the entry of a path outside the dataset and left the
\* same annotation twice in its list
C12_Witness ==
    /\ out.op = "add_annotation"
    /\ pX \in DOMAIN annotations.val
    /\ Len(annotations.val[pX]) = 2
    /\ annotations.val[pX][1] = annotations.val[pX][2]

\* C13: get_image_annotations returns the empty list for a path without entry,
\* creating none, and the current list for a known path; the store is unchanged.
C13_GetAnnotationsIsTotal ==
    [][\A p \in SessionPaths :
          GetImageAnnotationsCall(p)
          => /\ annotations' = annotations
             /\ p \notin DOMAIN annotations.val =>
                    out'.result = <<>> /\ p \notin DOMAIN annotations'.val
             /\ p \in DOMAIN annotations.val => out'.result = annotations.val[p]]_vars

\* the query answered the empty list for a path that has no entry
C13_Witness ==
    /\ out.op = "get_image_annotations"
    /\ out.image_path \notin DOMAIN annotations.val
    /\ out.result = <<>>


\* the step is save_annotations(p) taken right after save_annotations(p) wrote
\* the file of p
SavedAgain(p) ==
    /\ out.op = "save_annotations"
    /\ out.image_path = p
    /\ out.applied
    /\ \E now \in Times : SaveAnnotations(p, now)

\* C14: saving the same image twice in a row, the store unchanged in between,
\* leaves a file whose image_path and annotation list are those the first save
\* wrote, and no save changes the lists in memory.
C14_SaveIdempotent ==
    [][/\ \A p \in SessionPaths :
            SavedAgain(p) =>
                /\ annotations_dir'[Stem(p)].image_path = annotations_dir[Stem(p)].image_path
                /\ annotations_dir'[Stem(p)].annotations = annotations_dir[Stem(p)].annotations
       /\ \A p \in SessionPaths :
            (\E now \in Times : SaveAnnotations(p, now)) => annotations' = annotations]_vars

\* a file holding an annotation with a colour, just written by a save
C14_Witness ==
    /\ out.op = "save_annotations"
    /\ out.applied
    /\ Stem(out.image_path) \in DOMAIN annotations_dir
    /\ \E i \in 1..Len(annotations_dir[Stem(out.image_path)].annotations) :
          "color" \in DOMAIN annotations_dir[Stem(out.image_path)].annotations[i]

\* the step is load_dataset taken right after save_annotations wrote the file
\* of a discovered image
ReloadAfterSave ==
    /\ out.op = "save_annotations"
    /\ out.applied
    /\ out.image_path \in Range(images)
    /\ \E now \in Times : LoadDataset(now)

C16_BadFormatIsReported ==
    (out.op = "export_annotations"
     /\ out.format_type \notin {"JSON", "CSV", "COCO", "YOLO"})
    => /\ out.file = NothingWritten
       /\ out.raised # None \/ out.returned # None

\* the rows of an export that name one image, in file order
RECURSIVE RowsOfImage(_, _)
RowsOfImage(rows, p) ==
    IF rows = <<>> THEN <<>>
    ELSE (IF rows[1][1] = p THEN <<rows[1]>> ELSE <<>>) \o RowsOfImage(Tail(rows), p)

\* a row spells the annotation: pathology and the four coordinates
RowSpells(row, ann) ==
    /\ Len(row) = 9
    /\ row[2] = (IF "pathology" \in DOMAIN ann THEN ann.pathology ELSE "")
    /\ row[3] = ann.x /\ row[4] = ann.y /\ row[5] = ann.width /\ row[6] = ann.height

\* C17: a CSV export starts with the header Image, Pathology, X, Y, Width,
\* Height, Author, Date, Confidence and has one data row per annotation of the
\* store (as many as get_statistics counts), the rows of an image in the order
\* of its list.
C17_CsvExportRows ==
    (out.op = "export_annotations" /\ out.format_type = "CSV")
    => /\ out.file.header = <<"Image", "Pathology", "X", "Y", "Width", "Height",
                              "Author", "Date", "Confidence">>
       /\ Len(out.file.rows) = GetStatistics.total_annotations
       /\ \A p \in DOMAIN annotations.val :
              LET mine == RowsOfImage(out.file.rows, p)
              IN  /\ Len(mine) = Len(annotations.val[p])
                  /\ \A i \in 1..Len(mine) : RowSpells(mine[i], annotations.val[p][i])

\* a CSV export of a store that holds two annotations for one image
C17_Witness ==
    /\ out.op = "export_annotations"
    /\ out.format_type = "CSV"
    /\ \E p \in DOMAIN annotations.val :
          /\ Len(annotations.val[p]) = 2
          /\ annotations.val[p][1] # annotations.val[p][2]


\* the labels of a cell: its tokens that are not empty once stripped
LabelsOfCell(cell) ==
    LET toks == Split(cell, <<>>)
    IN  {Strip(toks[i])[1] : i \in {j \in 1..Len(toks) : Strip(toks[j]) # <<>>}}

\* C19: for every finding-labels cell, the parse is never the one-element
\* result "No Finding", and a cell that is empty or whose only non-empty token
\* is "No Finding" parses to the empty result.
C19_NoFindingIsEmpty ==
    out.op = "_parse_pathologies" =>
        /\ out.result # <<"No Finding">>
        /\ LabelsOfCell(out.cell) \subseteq {"No Finding"}
           /\ Cardinality({i \in 1..Len(out.cell) : out.cell[i] = "No Finding"}) <= 1
           => out.result = <<>>


\* C18: right after load_dataset returns, the annotation map has one entry for
\* each discovered image and no entry for any other path, whatever it held
\* before the call.
C18_ReloadResetsStore ==
    out.op = "load_dataset" => DOMAIN annotations.val = Range(images)


\* C20: get_reference_images_for_pathology returns at most limit entries, for
\* every limit from 0 on and every store, and no image path twice.
C20_AtMostLimit ==
    out.op = "get_reference_images_for_pathology" =>
        /\ Len(out.result) <= out.limit
        /\ \A i, j \in 1..Len(out.result) : i # j => out.result[i][1] # out.result[j][1]


\* ------------------------------------------------------------------ C21

ReferenceCalled == out.op = "get_reference_images_for_pathology"

\* an image other than the excluded one holds a box of the pathology
OthersHave(pathology, exclude_path) ==
    \E k \in 1..Len(annotations.keys) :
        /\ Norm(annotations.keys[k]) # Norm(exclude_path)
        /\ ForPathology(annotations.val[annotations.keys[k]], pathology) # <<>>

\* a bundled example names a discovered image
ExampleMatches(examples) ==
    /\ images # <<>>
    /\ \E i \in 1..Len(examples) :
          /\ examples[i].image_stem # "" /\ examples[i].annotations # <<>>
          /\ \E k \in 1..Len(images) : Stem(images[k]) = examples[i].image_stem

\* the store's keys that name the excluded image
KeysOf(exclude_path) ==
    {k \in Range(annotations.keys) : Norm(k) = Norm(exclude_path)}

\* the excluded image's own boxes of the pathology, by key
OwnMatching(key, pathology) == ForPathology(annotations.val[key], pathology)

\* the case of the fallback: an excluded image is given, no other image and
\* no bundled example provides a reference
FallbackCase ==
    /\ ReferenceCalled
    /\ out.exclude_path # None
    /\ ~OthersHave(out.pathology, out.exclude_path)
    /\ ~ExampleMatches(out.examples)

\* what the fallback promises: one entry pairing the excluded image with its
\* boxes of the pathology, in the order of its list, or nothing when it has none
FallbackResult ==
    IF \E key \in KeysOf(out.exclude_path) : OwnMatching(key, out.pathology) # <<>>
    THEN \E key \in KeysOf(out.exclude_path) :
            out.result = <<<<key, OwnMatching(key, out.pathology)>>>>
    ELSE out.result = <<>>

MetadataCsv == IF fs.data_entry.exists THEN fs.data_entry ELSE fs.bbox

\* every row of the file names a discovered image
AllRowsDiscovered(csv) ==
    \A i \in 1..Len(csv.rows) :
        ResolveRow(fs.tree, ImageOfRow(csv.rows[i])) \in Range(images)

\* some image has more than one row in the file
SeveralRowsPerImage(csv) ==
    \E i, j \in 1..Len(csv.rows) :
        i # j /\ ImageOfRow(csv.rows[i]) = ImageOfRow(csv.rows[j])

FromCsvCalled ==
    /\ out.op = "_cooccurrence_from_csv"
    /\ Loaded
    /\ out.csv = MetadataCsv
    /\ AllRowsDiscovered(out.csv)

\* C22: for a finding-labels CSV whose rows all name discovered images, the
\* matrix _cooccurrence_from_csv computes from the file equals the matrix
\* get_cooccurrence_data(from_csv_only=True) returns after loading a dataset
\* whose metadata CSV is that file, several rows for one image included.
C22_SameMatrixFromCsv ==
    FromCsvCalled => out.result = GetCooccurrenceData(TRUE)


\* ------------------------------------------------------------------ C23

CocoExported == out.op = "export_annotations" /\ out.format_type = "COCO"

\* the owner of each annotation, in the store's iteration order
Owners ==
    Flatten([k \in 1..Len(annotations.keys) |->
                [i \in 1..Len(annotations.val[annotations.keys[k]]) |-> annotations.keys[k]]])

\* the keys with a non-empty list, in the store's order
AnnotatedKeys ==
    LET NonEmpty(key) == annotations.val[key] # <<>>
    IN  SelectSeq(annotations.keys, NonEmpty)

\* the distinct pathologies of the store below a name, in string order
NamesBelow(name) ==
    {n \in ExportedPathologies :
        \E i, j \in 1..Len(SortedNames) :
            i < j /\ SortedNames[i] = n /\ SortedNames[j] = name}

\* C23: in a COCO export annotation ids are 1..N in iteration order (N the
\* number of annotations of the store), image ids are 1..K (K the number of
\* images with a non-empty list, the others being left out), every
\* annotation's image_id is the id of the image it belongs to, and its
\* category_id is the 1-based rank of its pathology among the sorted distinct
\* pathologies that categories lists.
C23_CocoIds ==
    CocoExported =>
        LET file == out.file
            all == Flatten(Values(annotations))
        IN  /\ Len(file.annotations) = TotalAnnotations(annotations)
            /\ \A j \in 1..Len(file.annotations) : file.annotations[j].id = j
            /\ Len(file.images) = Len(AnnotatedKeys)
            /\ \A i \in 1..Len(file.images) :
                  /\ file.images[i].id = i
                  /\ file.images[i].file_name = FileName(AnnotatedKeys[i])
            /\ \A j \in 1..Len(file.annotations) :
                  /\ AnnotatedKeys[file.annotations[j].image_id] = Owners[j]
                  /\ file.annotations[j].category_id
                        = Cardinality(NamesBelow(Get(all[j], "pathology", "Unknown"))) + 1
                  /\ file.categories[file.annotations[j].category_id].name
                        = Get(all[j], "pathology", "Unknown")
            /\ Len(file.categories) = Cardinality(ExportedPathologies)
            /\ \A c \in 1..Len(file.categories) : file.categories[c].id = c

\* a COCO export of a store whose first image has no annotation and whose
\* second has two of different pathologies
C23_Witness ==
    /\ CocoExported
    /\ Len(annotations.keys) >= 2
    /\ annotations.val[annotations.keys[1]] = <<>>
    /\ Len(annotations.val[annotations.keys[2]]) = 2
    /\ Len(out.file.categories) = 2
    /\ out.file.annotations[1].category_id = 2


\* ------------------------------------------------------------------ C24

\* the criteria map cut down to some of its keys
Restricted(filters, keys) == [k \in keys |-> filters[k]]

\* the images both results hold, in discovery order
InBoth(a, b) ==
    LET Both(p) == p \in Range(a) /\ p \in Range(b) IN SelectSeq(images, Both)

\* C24: constraints combine by conjunction: however the criteria of a call
\* are split into two maps with disjoint keys, filter_images of the whole map
\* returns exactly the images both parts return on their own, in discovery
\* order; so a further constraint never adds an image.
C24_FilterConjunction ==
    out.op = "filter_images" =>
        \A keys \in SUBSET DOMAIN out.filters :
            LET one == FilterImages(Restricted(out.filters, keys))
                other == FilterImages(Restricted(out.filters, DOMAIN out.filters \ keys))
            IN  /\ out.result = InBoth(one, other)
                /\ Range(out.result) \subseteq Range(one)

\* a call with two constraints, each of which accepts an image on its own
\* while no image passes both
C24_Witness ==
    /\ out.op = "filter_images"
    /\ out.result = <<>>
    /\ \E keys \in SUBSET DOMAIN out.filters :
          /\ keys # {} /\ keys # DOMAIN out.filters
          /\ FilterImages(Restricted(out.filters, keys)) # <<>>
          /\ FilterImages(Restricted(out.filters, DOMAIN out.filters \ keys)) # <<>>


\* ------------------------------------------------------------------ C25

\* the persisted unit of an image is the same before and after the step
UnitKept(image_path) ==
    /\ Stem(image_path) \in DOMAIN annotations_dir' <=> Stem(image_path) \in DOMAIN annotations_dir
    /\ Stem(image_path) \in DOMAIN annotations_dir
          => annotations_dir'[Stem(image_path)] = annotations_dir[Stem(image_path)]

\* C25: persistence is per image: for two distinct discovered images A and B,
\* images of different subfolders or extensions that share a filename stem
\* included, save_annotations(A) leaves the persisted unit of B as it was.
C25_SavePerImage ==
    [][\A A \in Range(images), now \in Times :
          SaveAnnotations(A, now) => \A B \in Range(images) \ {A} : UnitKept(B)]_vars


\* ------------------------------------------------------------------ C26, C27, C30

ChangeOps == {"on_annotation_created", "edit_annotation", "delete_annotation"}

\* C26: in the annotation tab undo reverts the most recent change: right
\* after a create, an edit or a delete on the current image (the first change
\* of the session included) one undo makes the current image's list what it
\* was just before the change, and a redo right after an undo makes the list
\* what it was just before the undo.
C26_UndoRevertsLastChange ==
    [][/\ (Undo /\ out.op \in ChangeOps /\ current_image_path # None)
            => /\ current_annotations' = out.before
               /\ ListOf(annotations', current_image_path) = out.before
       /\ (Redo /\ out.op = "undo" /\ out.applied /\ current_image_path # None)
            => /\ current_annotations' = out.before
               /\ ListOf(annotations', current_image_path) = out.before]_vars

\* C27: undo and redo never write the annotations recorded for one image
\* into another: an undo or redo that sets the store's list of the current
\* image takes a snapshot that was saved while that image was current.
C27_UndoKeepsToItsImage ==
    [][((Undo \/ Redo) /\ out'.applied /\ current_image_path # None)
          => history[history_index' + 1].image_path \in {current_image_path, None}]_vars

\* the history and its index are well formed
HistoryShape ==
    /\ Len(history) <= HistoryCap
    /\ -1 <= history_index /\ history_index <= Len(history) - 1
    /\ (history_index = -1) <=> (history = <<>>)

\* C30: after any sequence of save_state, undo and redo the history holds at
\* most 50 snapshots, -1 <= history_index <= len(history) - 1 with -1 only
\* while the history is empty, and undo and redo leave the history's
\* contents as they are.
C30_HistoryBounded ==
    /\ []HistoryShape
    /\ [][(Undo \/ Redo) => history' = history]_vars

\* save_state has just dropped the oldest snapshot of a full history
C30_Witness ==
    /\ out.op = "save_state" /\ out.dropped
    /\ Len(history) = HistoryCap
    /\ history_index = HistoryCap - 1


\* ------------------------------------------------------------------ C28

\* the i-th entry of the result is the excluded image
ExcludedAt(i) == Norm(out.result[i][1]) = Norm(out.exclude_path)

\* the result is the fallback's: the excluded image alone, with its own boxes
\* of the pathology
ByFallback ==
    /\ Len(out.result) = 1
    /\ out.result[1][1] \in KeysOf(out.exclude_path)
    /\ out.result[1][2] = OwnMatching(out.result[1][1], out.pathology)

\* C28: the image passed as exclude_path is in the result of
\* get_reference_images_for_pathology only as the single entry the fallback
\* makes, never alongside other images and never taken from the scan of the
\* store or from the bundled examples.
C28_ExcludedOnlyByFallback ==
    (ReferenceCalled /\ out.exclude_path # None) =>
        \A i \in 1..Len(out.result) : ExcludedAt(i) => ByFallback


\* ------------------------------------------------------------------ C29

StatisticsCalled == out.op = "get_statistics"

\* C29: after any sequence of load_dataset, add_annotation, update_annotation
\* and delete_annotation calls, with arbitrary image paths, get_statistics
\* reports annotated_images <= total_images.
C29_AnnotatedWithinTotal ==
    StatisticsCalled => out.stats.annotated_images <= out.stats.total_images


====
